---- MODULE Spec2Model ----
(***************************************************************************)
(* A model of the simulation core of jeffery0629/tetris-web: the Board,    *)
(* the Block catalog, the local two-player BattleGame and the online       *)
(* OnlineBattleGame controller.                                            *)
(*                                                                         *)
(* Coordinates are zero-based as in the Python code; a grid is a sequence  *)
(* of rows (top row first), so the cell (x, y) is grid[y + 1][x + 1].      *)
(* Times are integers in milliseconds.                                     *)
(***************************************************************************)
EXTENDS Integers, Sequences, FiniteSets, TLC

\* ------------------------------------------------------------------ bounds

\* The battle boards (BATTLE_GRID is 10 x 20 in constants.py).
GridWidth == 4
GridHeight == 4
\* Most locks of one player in a run, and the time (ms) up to which frames
\* of ordinary length are taken.
MaxLocks == 2
TimeHorizon == 1500
\* The time (ms) up to which the two-player runs and the hold runs take
\* ordinary frames.
BattleHorizon == 500
HoldHorizon == 500
OnlineHorizon == 500
DisconnectHorizon == 6000
\* Length of the block sequences MATCH_START assigns.
SeqLen == 2
\* Length of the block sequences in the runs that follow the draws.
LongSeqLen == 4

\* Board of the Board.* checks (clear_lines, is_valid_position).
ProbeWidth == 4
ProbeHeight == 3
\* Most occupied cells of a board drawn for the is_valid_position check.
ProbeMaxFilled == 2
\* Most rotate_cw / rotate_ccw calls made on one block in the rotation check.
MaxRotations == 4
\* The total of lines cleared up to which locks are taken in the scoring check.
MaxLines == 24

\* --------------------------------------------------------------- constants

None == "None"
COLOR_GRAY == "GRAY"

\* tetromino.py SHAPE_I .. SHAPE_L: rotation states as 0/1 matrices.
SHAPE_I ==
  << << <<0,0,0,0>>, <<1,1,1,1>>, <<0,0,0,0>>, <<0,0,0,0>> >>,
     << <<0,0,1,0>>, <<0,0,1,0>>, <<0,0,1,0>>, <<0,0,1,0>> >>,
     << <<0,0,0,0>>, <<0,0,0,0>>, <<1,1,1,1>>, <<0,0,0,0>> >>,
     << <<0,1,0,0>>, <<0,1,0,0>>, <<0,1,0,0>>, <<0,1,0,0>> >> >>

SHAPE_O ==
  << << <<1,1>>, <<1,1>> >> >>

SHAPE_T ==
  << << <<0,1,0>>, <<1,1,1>>, <<0,0,0>> >>,
     << <<0,1,0>>, <<0,1,1>>, <<0,1,0>> >>,
     << <<0,0,0>>, <<1,1,1>>, <<0,1,0>> >>,
     << <<0,1,0>>, <<1,1,0>>, <<0,1,0>> >> >>

SHAPE_S ==
  << << <<0,1,1>>, <<1,1,0>>, <<0,0,0>> >>,
     << <<0,1,0>>, <<0,1,1>>, <<0,0,1>> >>,
     << <<0,0,0>>, <<0,1,1>>, <<1,1,0>> >>,
     << <<1,0,0>>, <<1,1,0>>, <<0,1,0>> >> >>

SHAPE_Z ==
  << << <<1,1,0>>, <<0,1,1>>, <<0,0,0>> >>,
     << <<0,0,1>>, <<0,1,1>>, <<0,1,0>> >>,
     << <<0,0,0>>, <<1,1,0>>, <<0,1,1>> >>,
     << <<0,1,0>>, <<1,1,0>>, <<1,0,0>> >> >>

SHAPE_J ==
  << << <<1,0,0>>, <<1,1,1>>, <<0,0,0>> >>,
     << <<0,1,1>>, <<0,1,0>>, <<0,1,0>> >>,
     << <<0,0,0>>, <<1,1,1>>, <<0,0,1>> >>,
     << <<0,1,0>>, <<0,1,0>>, <<1,1,0>> >> >>

SHAPE_L ==
  << << <<0,0,1>>, <<1,1,1>>, <<0,0,0>> >>,
     << <<0,1,0>>, <<0,1,0>>, <<0,1,1>> >>,
     << <<0,0,0>>, <<1,1,1>>, <<1,0,0>> >>,
     << <<1,1,0>>, <<0,1,0>>, <<0,1,0>> >> >>

\* tetromino.py TETROMINOES: piece type -> shape and colour (colours by name).
TETROMINOES ==
  [ I |-> [shape |-> SHAPE_I, color |-> "CYAN"],
    O |-> [shape |-> SHAPE_O, color |-> "YELLOW"],
    T |-> [shape |-> SHAPE_T, color |-> "PURPLE"],
    S |-> [shape |-> SHAPE_S, color |-> "GREEN"],
    Z |-> [shape |-> SHAPE_Z, color |-> "RED"],
    J |-> [shape |-> SHAPE_J, color |-> "BLUE"],
    L |-> [shape |-> SHAPE_L, color |-> "ORANGE"] ]

PieceTypes == DOMAIN TETROMINOES

\* ------------------------------------------------------------------- Block

\* A Block is [type, x, y, rotation]; its shape and colour are those of its
\* type in TETROMINOES (create_tetromino).
\* None where a Block is expected.
NoBlock == [type |-> None, x |-> 0, y |-> 0, rotation |-> 0]

create_tetromino(piece_type) ==
  [type |-> piece_type, x |-> 0, y |-> 0, rotation |-> 0]

ShapeOf(block) == TETROMINOES[block.type].shape

ColorOf(block) == TETROMINOES[block.type].color

\* Block.get_cells: the filled cells of a rotation's matrix, row by row, as
\* offsets from the block's (x, y).
RECURSIVE CellsFrom(_, _, _)
CellsFrom(matrix, row_idx, col_idx) ==
  IF row_idx >= Len(matrix) THEN << >>
  ELSE IF col_idx >= Len(matrix[row_idx + 1])
       THEN CellsFrom(matrix, row_idx + 1, 0)
       ELSE (IF matrix[row_idx + 1][col_idx + 1] # 0
             THEN << <<col_idx, row_idx>> >>
             ELSE << >>)
            \o CellsFrom(matrix, row_idx, col_idx + 1)

\* The offsets of every type's every rotation, computed once.
ShapeCells ==
  [t \in PieceTypes |->
     [r \in 1..Len(TETROMINOES[t].shape) |->
        CellsFrom(TETROMINOES[t].shape[r], 0, 0)]]

get_cells(block) ==
  [i \in 1..Len(ShapeCells[block.type][block.rotation + 1]) |->
     << block.x + ShapeCells[block.type][block.rotation + 1][i][1],
        block.y + ShapeCells[block.type][block.rotation + 1][i][2] >>]

rotate_cw(block) ==
  [block EXCEPT !.rotation = (block.rotation + 1) % Len(ShapeOf(block))]

\* A counter-clockwise rotation that steps the index forwards.
rotate_ccw_Clockwise(block) ==
  [block EXCEPT !.rotation = (block.rotation + 1) % Len(ShapeOf(block))]

rotate_ccw(block) ==
  [block EXCEPT !.rotation = (block.rotation - 1) % Len(ShapeOf(block))]

\* ------------------------------------------------------------------- Board

EmptyRow(width) == [x \in 1..width |-> None]

\* Board.__init__
NewBoard(width, height) ==
  [width |-> width, height |-> height,
   grid |-> [y \in 1..height |-> EmptyRow(width)]]

\* Board.is_valid_position: the loop over the cells, with its early returns.
RECURSIVE ValidFrom(_, _, _)
ValidFrom(board, cells, i) ==
  IF i > Len(cells) THEN TRUE
  ELSE LET x == cells[i][1]
           y == cells[i][2]
       IN IF x < 0 \/ x >= board.width \/ y >= board.height THEN FALSE
          ELSE IF y >= 0 /\ board.grid[y + 1][x + 1] # None THEN FALSE
          ELSE ValidFrom(board, cells, i + 1)

\* The same loop without the "if y >= 0" guard: Python's grid[y] with y < 0
\* reads a row counted from the bottom.
ValidFrom_NoTopGuard(board, cells) ==
  \A i \in 1..Len(cells) :
    LET x == cells[i][1]
        y == cells[i][2]
    IN ~(x < 0 \/ x >= board.width \/ y >= board.height)
       /\ board.grid[(y % board.height) + 1][x + 1] = None

is_valid_position_NoTopGuard(board, block) ==
  ValidFrom_NoTopGuard(board, get_cells(block))

is_valid_position(board, block) ==
  ValidFrom(board, get_cells(block), 1)

\* Board.place_block: the cells inside the grid take the block's colour.
RECURSIVE PlaceFrom(_, _, _, _)
PlaceFrom(board, cells, color, i) ==
  IF i > Len(cells) THEN board
  ELSE LET x == cells[i][1]
           y == cells[i][2]
       IN IF 0 <= y /\ y < board.height /\ 0 <= x /\ x < board.width
          THEN PlaceFrom([board EXCEPT !.grid[y + 1][x + 1] = color],
                         cells, color, i + 1)
          ELSE PlaceFrom(board, cells, color, i + 1)

place_block(board, block) ==
  PlaceFrom(board, get_cells(block), ColorOf(block), 1)

RowFull(row) == \A x \in 1..Len(row) : row[x] # None

\* del self.grid[y]; self.grid.insert(0, empty row)
RemoveRow(board, y) ==
  << EmptyRow(board.width) >>
    \o SubSeq(board.grid, 1, y)
    \o SubSeq(board.grid, y + 2, board.height)

\* Board.clear_lines: the while loop, from y = height - 1 down; after a
\* removal the same y is tested again.
RECURSIVE ClearFrom(_, _, _)
ClearFrom(board, y, lines_cleared) ==
  IF y < 0 THEN [board |-> board, lines_cleared |-> lines_cleared]
  ELSE IF RowFull(board.grid[y + 1])
       THEN ClearFrom([board EXCEPT !.grid = RemoveRow(board, y)],
                      y, lines_cleared + 1)
       ELSE ClearFrom(board, y - 1, lines_cleared)

\* The loop with "y -= 1" also after a removal: the row that moved down into
\* y is skipped.
RECURSIVE ClearFrom_SkipAfterRemoval(_, _, _)
ClearFrom_SkipAfterRemoval(board, y, lines_cleared) ==
  IF y < 0 THEN [board |-> board, lines_cleared |-> lines_cleared]
  ELSE IF RowFull(board.grid[y + 1])
       THEN ClearFrom_SkipAfterRemoval(
              [board EXCEPT !.grid = RemoveRow(board, y)],
              y - 1, lines_cleared + 1)
       ELSE ClearFrom_SkipAfterRemoval(board, y - 1, lines_cleared)

clear_lines_SkipAfterRemoval(board) ==
  ClearFrom_SkipAfterRemoval(board, board.height - 1, 0)

clear_lines(board) == ClearFrom(board, board.height - 1, 0)

\* ------------------------------------------------------ constants.py values

INITIAL_FALL_SPEED == 1000
LOCK_DELAY == 500
LINES_PER_LEVEL == 10
SCORE_SINGLE_LINE == 100
SCORE_DOUBLE_LINE == 300
SCORE_TRIPLE_LINE == 500
SCORE_QUAD_LINE == 800
SCORE_SOFT_DROP == 1
SCORE_HARD_DROP == 2
BATTLE_DURATION == 600000

\* A table that sends one row per cleared line.
GARBAGE_LINES_OnePerLine(lines_cleared) ==
  IF lines_cleared \in 1..4 THEN lines_cleared ELSE 0

\* constants.py GARBAGE_LINES, read as GARBAGE_LINES.get(lines_cleared, 0)
GARBAGE_LINES(lines_cleared) ==
  CASE lines_cleared = 1 -> 0
    [] lines_cleared = 2 -> 1
    [] lines_cleared = 3 -> 2
    [] lines_cleared = 4 -> 4
    [] OTHER -> 0

BattlePowerUpType == {"ink", "speed_up", "reverse", "fog", "earthquake"}

\* constants.py BATTLE_POWERUP_DURATION, read as .get(debuff, 5.0)
BATTLE_POWERUP_DURATION(debuff) ==
  CASE debuff = "ink" -> 5000
    [] debuff = "speed_up" -> 8000
    [] debuff = "reverse" -> 6000
    [] debuff = "fog" -> 10000
    [] debuff = "earthquake" -> 4000
    [] OTHER -> 5000

PLAYING == "playing"
PAUSED == "paused"
GAME_OVER == "game_over"

\* ------------------------------------------------------------ BattlePlayer

\* BattlePlayer.__init__.  next_block and hold_block are kept as piece types:
\* a next block is always a fresh create_tetromino (x = y = rotation = 0),
\* and a held block's x, y and rotation are overwritten before they are read.
BattlePlayer(player_id, board) ==
  [player_id |-> player_id, board |-> board,
   score |-> 0, lines |-> 0, level |-> 1,
   current_block |-> NoBlock, next_block |-> None, hold_block |-> None,
   can_hold |-> TRUE,
   fall_timer |-> 0, lock_timer |-> 0, is_on_ground |-> FALSE,
   powerups |-> << >>, active_debuffs |-> << >>,
   pending_garbage |-> 0, is_dead |-> FALSE, is_local |-> TRUE]

RECURSIVE Pow(_, _)
Pow(b, n) == IF n <= 0 THEN 1 ELSE b * Pow(b, n - 1)

\* BattlePlayer.get_fall_speed, as the test "fall_timer >= fall_speed":
\* fall_speed = 1000 ms * 0.9^(level - 1), halved under SPEED_UP; both sides
\* are multiplied by 10^(level - 1) * 2 to stay in the integers.
FallDue(player) ==
  LET halve == IF "speed_up" \in DOMAIN player.active_debuffs THEN 1 ELSE 2
  IN player.fall_timer * Pow(10, player.level - 1) * 2
       >= INITIAL_FALL_SPEED * Pow(9, player.level - 1) * halve

is_controls_reversed(player) == "reverse" \in DOMAIN player.active_debuffs

\* BattlePlayer.update_debuffs
update_debuffs(player, current_time) ==
  [player EXCEPT !.active_debuffs =
     [d \in {e \in DOMAIN @ : ~(current_time > @[e])} |-> @[d]]]

\* BattlePlayer.apply_debuff
apply_debuff(player, debuff, current_time) ==
  [player EXCEPT !.active_debuffs =
     [d \in (DOMAIN @) \cup {debuff} |->
        IF d = debuff THEN current_time + BATTLE_POWERUP_DURATION(debuff)
        ELSE @[d]]]

\* BattlePlayer.add_powerup (the returned flag is not read by any caller)
add_powerup(player, powerup) ==
  IF Len(player.powerups) < 2
  THEN [player EXCEPT !.powerups = Append(@, powerup)]
  ELSE player

\* ------------------------------------------------- BattleGame, per player

\* The values drawn from random in one call chain:
\*   first   the type of get_random_tetromino() when there is no next block
\*   next    the type of the new next block
\*   powerup None (random.random() >= BATTLE_POWERUP_SPAWN_RATE) or the
\*           random.choice of BattlePowerUpType
\*   gaps    the gap column of each garbage row, in the order drawn
Draw(first, next, powerup, gaps) ==
  [first |-> first, next |-> next, powerup |-> powerup, gaps |-> gaps]

BlockWidth(block) == Len(ShapeOf(block)[block.rotation + 1][1])

\* A spawn test that never marks the player dead.
SpawnTested_NeverDead(player, placed) ==
  [player EXCEPT !.current_block = placed,
                 !.fall_timer = 0, !.lock_timer = 0,
                 !.is_on_ground = FALSE, !.can_hold = TRUE]

\* BattleGame._spawn_block: the block taken, the power-up and the next
\* block drawn, then the block centred and tested.
SpawnTested(player, placed) ==
  IF ~is_valid_position(player.board, placed)
  THEN [player EXCEPT !.current_block = placed, !.is_dead = TRUE]
  ELSE [player EXCEPT !.current_block = placed,
                      !.fall_timer = 0, !.lock_timer = 0,
                      !.is_on_ground = FALSE, !.can_hold = TRUE]

SpawnCentred(player, cur) ==
  SpawnTested(player,
              [cur EXCEPT !.x = (player.board.width - BlockWidth(cur)) \div 2,
                          !.y = 0, !.rotation = 0])

SpawnPowerup(player, powerup) ==
  IF powerup # None THEN add_powerup(player, powerup) ELSE player

_spawn_block(player, draw) ==
  SpawnCentred([SpawnPowerup(player, draw.powerup)
                  EXCEPT !.next_block = draw.next],
               IF player.next_block # None
               THEN create_tetromino(player.next_block)
               ELSE create_tetromino(draw.first))

\* A shift that moves every row up by one row whatever the count.
RECURSIVE ShiftUp_OneRow(_, _, _)
ShiftUp_OneRow(board, count, y) ==
  IF y >= board.height THEN board
  ELSE ShiftUp_OneRow([board EXCEPT !.grid[y] = board.grid[y + 1]],
                      count, y + 1)

\* BattleGame._add_garbage_lines.  A row index below 0 in the second loop
\* (count > height) is a Python index from the end.
RECURSIVE ShiftUp(_, _, _)
ShiftUp(board, count, y) ==
  IF y >= board.height THEN board
  ELSE ShiftUp([board EXCEPT !.grid[y - count + 1] = board.grid[y + 1]],
               count, y + 1)

GarbageRow(width, gap) ==
  [x \in 1..width |-> IF x - 1 = gap THEN None ELSE COLOR_GRAY]

RECURSIVE FillGarbage(_, _, _, _)
FillGarbage(board, count, gaps, i) ==
  IF i > count THEN board
  ELSE LET y == board.height - count + (i - 1)
       IN FillGarbage(
            [board EXCEPT !.grid[(y % board.height) + 1] =
                            GarbageRow(board.width, gaps[i])],
            count, gaps, i + 1)

_add_garbage_lines(board, count, gaps) ==
  IF count <= 0 THEN board
  ELSE FillGarbage(ShiftUp(board, count, count), count, gaps, 1)

line_scores(lines_cleared) ==
  CASE lines_cleared = 1 -> SCORE_SINGLE_LINE
    [] lines_cleared = 2 -> SCORE_DOUBLE_LINE
    [] lines_cleared = 3 -> SCORE_TRIPLE_LINE
    [] OTHER -> SCORE_QUAD_LINE

NoLock == [locked |-> FALSE]

NoLockResult(player, opponent) ==
  [player |-> player, opponent |-> opponent, lock |-> NoLock]

\* What a lock did, for the properties: how it was reached, whether the
\* block was in a valid position when it was placed and whether it was one
\* row further down, the lines cleared, the pending garbage of both players
\* before and after, whether the opponent's board is as it was, and the
\* bottom rows of the player's board that the lock's garbage went to.
LockRecord(player, opponent, after, opp_after, via, lines_cleared) ==
  [locked |-> TRUE, via |-> via,
   valid |-> is_valid_position(player.board, player.current_block),
   can_fall |-> is_valid_position(player.board,
                                  [player.current_block EXCEPT !.y = @ + 1]),
   lines_cleared |-> lines_cleared,
   pending_before |-> player.pending_garbage,
   pending_after |-> after.pending_garbage,
   opp_pending_before |-> opponent.pending_garbage,
   opp_pending_after |-> opp_after.pending_garbage,
   opp_board_same |-> opp_after.board = opponent.board,
   injected_rows |->
     SubSeq(after.board.grid,
            IF player.pending_garbage < after.board.height
            THEN after.board.height - player.pending_garbage + 1 ELSE 1,
            after.board.height)]

LockResult(player, opponent, after, opp_after, via, lines_cleared) ==
  [player |-> after, opponent |-> opp_after,
   lock |-> LockRecord(player, opponent, after, opp_after, via,
                       lines_cleared)]

\* A scoring that compares the lines with the threshold strictly.
LockScored_StrictThreshold(player, cleared) ==
  IF cleared.lines_cleared > 0
  THEN [player EXCEPT
          !.board = cleared.board,
          !.score = @ + line_scores(cleared.lines_cleared) * player.level,
          !.lines = @ + cleared.lines_cleared,
          !.level = IF player.lines + cleared.lines_cleared
                         > player.level * LINES_PER_LEVEL
                    THEN @ + 1 ELSE @]
  ELSE [player EXCEPT !.board = cleared.board]

\* "if lines_cleared > 0": the score, the lines and the level.
LockScored(player, cleared) ==
  IF cleared.lines_cleared > 0
  THEN [player EXCEPT
          !.board = cleared.board,
          !.score = @ + line_scores(cleared.lines_cleared) * player.level,
          !.lines = @ + cleared.lines_cleared,
          !.level = IF player.lines + cleared.lines_cleared
                         >= player.level * LINES_PER_LEVEL
                    THEN @ + 1 ELSE @]
  ELSE [player EXCEPT !.board = cleared.board]

\* "garbage = GARBAGE_LINES.get(lines_cleared, 0); if garbage > 0:
\* opponent.pending_garbage += garbage", inside "if lines_cleared > 0".
LockSent(opponent, lines_cleared) ==
  IF lines_cleared > 0 /\ GARBAGE_LINES(lines_cleared) > 0
  THEN [opponent EXCEPT !.pending_garbage = @ + GARBAGE_LINES(lines_cleared)]
  ELSE opponent

\* "if player.pending_garbage > 0": the rows added, the count reset.
LockInjected(player, gaps) ==
  IF player.pending_garbage > 0
  THEN [player EXCEPT
          !.board = _add_garbage_lines(@, player.pending_garbage, gaps),
          !.pending_garbage = 0]
  ELSE player

\* A _lock_block that pushes the garbage rows into the opponent's board at
\* once instead of counting them as pending.
LockCleared_ImmediateGarbage(player, opponent, gaps, via, cleared) ==
  LockResult(player, opponent,
             LockInjected(LockScored(player, cleared), gaps),
             [opponent EXCEPT
                !.board = _add_garbage_lines(
                            @, GARBAGE_LINES(cleared.lines_cleared),
                            [i \in 1..4 |-> 0])],
             via, cleared.lines_cleared)

LockCleared(player, opponent, gaps, via, cleared) ==
  LockResult(player, opponent,
             LockInjected(LockScored(player, cleared), gaps),
             LockSent(opponent, cleared.lines_cleared),
             via, cleared.lines_cleared)

\* BattleGame._lock_block, with the spawn at its end left to the caller
\* (BattleGame and OnlineBattleGame spawn differently): the result is the
\* player before the spawn, the opponent, and the record of the lock.
LockBeforeSpawn(player, opponent, gaps, via) ==
  LockCleared(player, opponent, gaps, via,
              clear_lines(place_block(player.board, player.current_block)))

SpawnAfterLock(r, draw) == [r EXCEPT !.player = _spawn_block(@, draw)]

_lock_block(player, opponent, draw, via) ==
  IF player.current_block = NoBlock THEN NoLockResult(player, opponent)
  ELSE SpawnAfterLock(LockBeforeSpawn(player, opponent, draw.gaps, via), draw)

\* BattleGame._move_block: the player after the call and the returned flag.
\* After a move: off the ground if it was sideways and the row below is
\* free; the lock timer reset if it was downwards.
MoveSettled(player, dx, dy) ==
  [player EXCEPT
     !.is_on_ground =
        IF dx # 0 /\ is_valid_position(
                       player.board,
                       [player.current_block EXCEPT !.y = @ + 1])
        THEN FALSE ELSE @,
     !.lock_timer =
        IF dy > 0
           \/ (dx # 0 /\ is_valid_position(
                            player.board,
                            [player.current_block EXCEPT !.y = @ + 1]))
        THEN 0 ELSE @]

MoveTo(player, moved, dx, dy) ==
  IF ~is_valid_position(player.board, moved)
  THEN [player |-> player, ok |-> FALSE]
  ELSE [player |-> MoveSettled([player EXCEPT !.current_block = moved],
                               dx, dy),
        ok |-> TRUE]

MoveBy(player, dx, dy) ==
  MoveTo(player, [player.current_block EXCEPT !.x = @ + dx, !.y = @ + dy],
         dx, dy)

_move_block(player, dx0, dy) ==
  IF player.current_block = NoBlock THEN [player |-> player, ok |-> FALSE]
  ELSE MoveBy(player,
              IF is_controls_reversed(player) /\ dx0 # 0 THEN -dx0 ELSE dx0,
              dy)

\* BattleGame._rotate_block: the wall kicks in list order.
kicks == << <<0, 0>>, <<-1, 0>>, <<1, 0>>, <<-2, 0>>, <<2, 0>>,
            <<0, -1>>, <<0, -2>> >>

Kicked(original, rotated, kick) ==
  [rotated EXCEPT !.x = original.x + kick[1], !.y = original.y + kick[2]]

RECURSIVE KickFrom(_, _, _, _)
KickFrom(player, original, rotated, i) ==
  IF i > Len(kicks) THEN [player EXCEPT !.current_block = original]
  ELSE IF is_valid_position(player.board, Kicked(original, rotated, kicks[i]))
       THEN [player EXCEPT
               !.current_block = Kicked(original, rotated, kicks[i]),
               !.lock_timer = 0]
       ELSE KickFrom(player, original, rotated, i + 1)

_rotate_block(player, clockwise) ==
  IF player.current_block = NoBlock THEN player
  ELSE KickFrom(player, player.current_block,
                IF clockwise THEN rotate_cw(player.current_block)
                ELSE rotate_ccw(player.current_block), 1)

\* BattleGame._hard_drop: the while loop, then y -= 1 and the score.
RECURSIVE DropFrom(_, _, _)
DropFrom(board, block, drop_distance) ==
  IF is_valid_position(board, block)
  THEN DropFrom(board, [block EXCEPT !.y = @ + 1], drop_distance + 1)
  ELSE [block |-> [block EXCEPT !.y = @ - 1],
        drop_distance |-> drop_distance - 1]

Dropped(player, d) ==
  [player EXCEPT !.current_block = d.block,
                 !.score = @ + d.drop_distance * SCORE_HARD_DROP]

_hard_drop(player, opponent, draw) ==
  IF player.current_block = NoBlock THEN NoLockResult(player, opponent)
  ELSE _lock_block(Dropped(player,
                           DropFrom(player.board, player.current_block, 0)),
                   opponent, draw, "hard_drop")

\* A swap that leaves the block that comes back where the held one was.
HoldSwapped_KeepPosition(player) ==
  [player EXCEPT
     !.current_block = [player.current_block EXCEPT
                          !.type = player.hold_block, !.rotation = 0],
     !.hold_block = player.current_block.type,
     !.can_hold = FALSE]

\* A _hold_block that does not test can_hold.
_hold_block_NoGuard(player, draw) ==
  IF player.current_block = NoBlock THEN player
  ELSE IF player.hold_block # None
       THEN [player EXCEPT
               !.current_block =
                  [create_tetromino(player.hold_block) EXCEPT
                     !.x = (player.board.width
                            - Len(TETROMINOES[player.hold_block].shape[1][1]))
                           \div 2],
               !.hold_block = player.current_block.type,
               !.can_hold = FALSE]
       ELSE [_spawn_block([player EXCEPT
                             !.hold_block = player.current_block.type], draw)
               EXCEPT !.can_hold = FALSE]

\* BattleGame._hold_block: the swap branch, and the branch that stores the
\* block and spawns the next one.
HoldSwapped(player) ==
  [player EXCEPT
     !.current_block =
        [create_tetromino(player.hold_block) EXCEPT
           !.rotation = 0,
           !.x = (player.board.width
                  - Len(TETROMINOES[player.hold_block].shape[1][1])) \div 2,
           !.y = 0],
     !.hold_block = player.current_block.type,
     !.can_hold = FALSE]

HoldStored(player) ==
  [player EXCEPT !.hold_block = player.current_block.type]

_hold_block(player, draw) ==
  IF ~player.can_hold \/ player.current_block = NoBlock THEN player
  ELSE IF player.hold_block # None THEN HoldSwapped(player)
  ELSE [_spawn_block(HoldStored(player), draw) EXCEPT !.can_hold = FALSE]

\* "if not self._move_block(player, 0, 1): player.is_on_ground = True"
GroundIfBlocked(m) ==
  IF ~m.ok THEN [m.player EXCEPT !.is_on_ground = TRUE] ELSE m.player

\* "if player.is_on_ground: player.lock_timer += dt"
LockTimer(player, dt) ==
  IF player.is_on_ground THEN [player EXCEPT !.lock_timer = @ + dt]
  ELSE player

\* BattlePlayer.use_powerup and BattleGame._use_powerup
_use_powerup(player, opponent, current_time) ==
  IF Len(player.powerups) > 0
  THEN [player |-> [player EXCEPT !.powerups = Tail(@)],
        opponent |-> apply_debuff(opponent, Head(player.powerups),
                                  current_time)]
  ELSE [player |-> player, opponent |-> opponent]

\* The body of update's loop for one live player, up to the lock: the fall
\* timer and the gravity step, then the lock timer.
UpdateGravity(player) ==
  IF FallDue(player)
  THEN GroundIfBlocked(_move_block([player EXCEPT !.fall_timer = 0], 0, 1))
  ELSE player

UpdateFall(player, dt) ==
  LockTimer(UpdateGravity([player EXCEPT !.fall_timer = @ + dt]), dt)

LockDue(player) == player.is_on_ground /\ player.lock_timer >= LOCK_DELAY

\* The body of update's loop for one live player; fallen is the player
\* after the fall and lock timers.
UpdateLock(fallen, opponent, draw) ==
  IF LockDue(fallen) THEN _lock_block(fallen, opponent, draw, "lock_delay")
  ELSE NoLockResult(fallen, opponent)

UpdatePlayer(player, opponent, dt, draw) ==
  UpdateLock(UpdateFall(player, dt), opponent, draw)

\* ------------------------------------------------------------------ state

VARIABLES
  players,            \* <<player1, player2>>: the two BattlePlayer objects
  state,              \* BattleGame.state
  winner,             \* BattleGame.winner
  time_remaining,     \* BattleGame.time_remaining (ms)
  game_start_time,    \* BattleGame.game_start_time (ms)
  now,                \* time.time() (ms)
  running,            \* the run loop's flag
  pc,                 \* where the run loop stands
  obs,                \* the locks made by the last handler run
  locks,              \* locks made by each player so far
  p_board,            \* Board.* checks: the board drawn
  p_block,            \* Board.* checks: the block drawn
  p_ret,              \* Board.* checks: the value returned
  local_role,               \* OnlineBattleGame.local_role
  connected,                \* NetworkManager.connected
  game_result,              \* OnlineBattleGame.game_result
  server_time_remaining,    \* OnlineBattleGame.server_time_remaining (ms)
  opponent_disconnected,    \* OnlineBattleGame.opponent_disconnected
  my_block_sequence,        \* OnlineBattleGame.my_block_sequence
  opponent_block_sequence,  \* OnlineBattleGame.opponent_block_sequence
  block_index,              \* [my, opp]: my_block_index, opponent_block_index
  _sync_counter,            \* OnlineBattleGame._sync_counter
  sent                      \* the messages sent by the last handler run

probe_vars == <<p_board, p_block, p_ret>>

online_vars == <<local_role, connected, game_result, server_time_remaining,
                 opponent_disconnected, my_block_sequence,
                 opponent_block_sequence, block_index, _sync_counter, sent>>

vars == <<players, state, winner, time_remaining, game_start_time, now,
          running, pc, obs, locks, probe_vars, online_vars>>

\* ------------------------------------------------------- the values drawn

\* get_random_tetromino() draws.
PieceDraws == {"I", "O"}
\* The power-up drawn at a spawn (None: none spawned).
PowerupDraws == {None}
\* random.randint(0, width - 1) draws for a garbage row's gap.
GapDraws == {0, GridWidth - 1}
\* dt of an ordinary frame (ms), and the dt draws of the two-player runs:
\* an ordinary frame, or one that outlasts the match.
FrameDt == 250
DtDraws == {FrameDt, BATTLE_DURATION}
\* Sets of held keys seen by handle_input, and KEYDOWN keys, per run.
BattleHeld == { {}, {"a"}, {"d"} }
HoldKeys == {"w", "space", "e"}
HoldHeld == { {}, {"a"}, {"d"}, {"s"} }
LockDelayHeld == { {}, {"s"} }
OnlineHeld == { {}, {"left"} }

SpawnDraws(player) ==
  { Draw(f, n, pw, << >>) :
      f \in (IF player.next_block = None THEN PieceDraws ELSE {None}),
      n \in PieceDraws, pw \in PowerupDraws }

LockDraws(player) ==
  { [d EXCEPT !.gaps = g] : d \in SpawnDraws(player),
      g \in [1..player.pending_garbage -> GapDraws] }

NoDraw == Draw(None, None, None, << >>)

\* -------------------------------------------------------------- BattleGame

Other(i) == 3 - i

SetPair(ps, i, r) ==
  [ps EXCEPT ![i] = r.player, ![Other(i)] = r.opponent]

NoLocks == << NoLock, NoLock >>

CountLocks(l) ==
  [i \in 1..2 |-> locks[i] + (IF l[i].locked THEN 1 ELSE 0)]

\* BattleGame.__init__ for one player: _spawn_block on the empty board, then
\* next_block drawn again.
InitialPlayer(player_id, draw, next) ==
  [_spawn_block(BattlePlayer(player_id, NewBoard(GridWidth, GridHeight)), draw)
     EXCEPT !.next_block = next]

InitialPlayers ==
  { << InitialPlayer(1, d1, n1), InitialPlayer(2, d2, n2) >> :
      d1 \in SpawnDraws(BattlePlayer(1, NewBoard(GridWidth, GridHeight))),
      d2 \in SpawnDraws(BattlePlayer(2, NewBoard(GridWidth, GridHeight))),
      n1 \in PieceDraws, n2 \in PieceDraws }

\* An _end_game that compares the scores the wrong way round.
_end_game_LowerScoreWins(ps) ==
  IF ps[1].is_dead /\ ~ps[2].is_dead THEN 2
  ELSE IF ps[2].is_dead /\ ~ps[1].is_dead THEN 1
  ELSE IF ps[1].score < ps[2].score THEN 1
  ELSE IF ps[2].score < ps[1].score THEN 2
  ELSE 0

\* BattleGame._end_game: the winner.
_end_game(ps) ==
  IF ps[1].is_dead /\ ~ps[2].is_dead THEN 2
  ELSE IF ps[2].is_dead /\ ~ps[1].is_dead THEN 1
  ELSE IF ps[1].score > ps[2].score THEN 1
  ELSE IF ps[2].score > ps[1].score THEN 2
  ELSE 0

NoCall == [op |-> None]

ProbeIdle ==
  /\ p_board = NewBoard(1, 1)
  /\ p_block = NoBlock
  /\ p_ret = NoCall

\* game_result = None
NoResult == [winner |-> 0, reason |-> None]

\* OnlineBattleGame.__init__; the variables of the online game while the
\* game is a local one.
OnlineIdle ==
  /\ local_role = 0
  /\ connected = FALSE
  /\ game_result = NoResult
  /\ server_time_remaining = BATTLE_DURATION
  /\ opponent_disconnected = FALSE
  /\ my_block_sequence = << >>
  /\ opponent_block_sequence = << >>
  /\ block_index = [my |-> 0, opp |-> 0]
  /\ _sync_counter = 0
  /\ sent = << >>

\* BattleGame.__init__ and the start of run().
BattleInit ==
  /\ players \in InitialPlayers
  /\ state = PLAYING
  /\ winner = 0
  /\ time_remaining = BATTLE_DURATION
  /\ game_start_time = 0
  /\ now = 0
  /\ running = TRUE
  /\ pc = "events"
  /\ obs = NoLocks
  /\ locks = <<0, 0>>
  /\ ProbeIdle
  /\ OnlineIdle

\* handle_event, KEYDOWN K_ESCAPE.
handle_event_escape ==
  /\ pc = "events"
  /\ state' = (IF state = PLAYING THEN PAUSED
               ELSE IF state = PAUSED THEN PLAYING ELSE state)
  /\ running' = (IF state = GAME_OVER THEN FALSE ELSE running)
  /\ obs' = NoLocks
  /\ UNCHANGED <<players, winner, time_remaining, game_start_time, now, pc,
                 locks, probe_vars, online_vars>>

\* The branch of handle_event for one control key of player i.
Control(i, key, draw) ==
  LET me == players[i]
      opp == players[Other(i)]
  IN CASE key \in {"w", "up"} ->
            [player |-> _rotate_block(me, TRUE), opponent |-> opp,
             lock |-> NoLock]
       [] key \in {"space", "return"} -> _hard_drop(me, opp, draw)
       [] key \in {"q", "slash"} ->
            [player |-> _use_powerup(me, opp, now).player,
             opponent |-> _use_powerup(me, opp, now).opponent,
             lock |-> NoLock]
       [] key \in {"e", "period"} ->
            [player |-> _hold_block(me, draw), opponent |-> opp,
             lock |-> NoLock]

ControlDraws(i, key) ==
  CASE key \in {"space", "return"} -> LockDraws(players[i])
    [] key \in {"e", "period"} ->
         (IF players[i].can_hold /\ players[i].hold_block = None
          THEN SpawnDraws(players[i]) ELSE {NoDraw})
    [] OTHER -> {NoDraw}

\* handle_event, KEYDOWN of a control key of player i.
handle_event_control(i, key) ==
  /\ pc = "events"
  /\ state = PLAYING /\ ~players[i].is_dead
  /\ \E draw \in ControlDraws(i, key) :
       LET r == Control(i, key, draw)
           l == [j \in 1..2 |-> IF j = i THEN r.lock ELSE NoLock]
       IN /\ players' = SetPair(players, i, r)
          /\ obs' = l
          /\ locks' = CountLocks(l)
          /\ locks'[i] <= MaxLocks
  /\ UNCHANGED <<state, winner, time_remaining, game_start_time, now,
                 running, pc, probe_vars, online_vars>>

\* handle_event, KEYDOWN K_r at game over: restart().
handle_event_restart ==
  /\ pc = "events"
  /\ state = GAME_OVER
  /\ players' \in InitialPlayers
  /\ state' = PLAYING
  /\ game_start_time' = now
  /\ time_remaining' = BATTLE_DURATION
  /\ winner' = 0
  /\ obs' = NoLocks
  /\ UNCHANGED <<now, running, pc, locks, probe_vars, online_vars>>

\* One player's part of handle_input: the held keys in the order tested.
HeldMoves(player, left, right, down, held) ==
  LET p1 == IF left \in held THEN _move_block(player, -1, 0).player
            ELSE player
      p2 == IF right \in held THEN _move_block(p1, 1, 0).player ELSE p1
      p3 == IF down \in held
            THEN LET m == _move_block(p2, 0, 1)
                 IN IF m.ok THEN [m.player EXCEPT !.score = @ + SCORE_SOFT_DROP]
                    ELSE m.player
            ELSE p2
  IN p3

\* BattleGame.handle_input.  Frames are at least 250 ms apart, so the
\* input_delay of 80 ms since a key's last move has always passed.
handle_input(held) ==
  /\ pc = "events"
  /\ players' =
       << IF state = PLAYING /\ ~players[1].is_dead
          THEN HeldMoves(players[1], "a", "d", "s", held) ELSE players[1],
          IF state = PLAYING /\ ~players[2].is_dead
          THEN HeldMoves(players[2], "left", "right", "down", held)
          ELSE players[2] >>
  /\ pc' = "update"
  /\ obs' = NoLocks
  /\ UNCHANGED <<state, winner, time_remaining, game_start_time, now,
                 running, locks, probe_vars, online_vars>>

\* BattleGame.update after the timer test: the debuffs, then the loop over
\* (player1, player2) and (player2, player1) with its return on a death.
\* r1 and r2 are the results of the two passes of the loop, died1 whether
\* the first pass ended the game.
UpdateResult(r1, died1, r2) ==
  [players |-> << r2.opponent, r2.player >>,
   lock |-> << r1.lock, r2.lock >>,
   ended |-> died1 \/ (~r1.opponent.is_dead /\ r2.player.is_dead)]

UpdateSecond(r1, died1, dt, d2) ==
  UpdateResult(r1, died1,
               IF died1 \/ r1.opponent.is_dead
               THEN NoLockResult(r1.opponent, r1.player)
               ELSE UpdatePlayer(r1.opponent, r1.player, dt, d2))

UpdateFirst(ps, dt, d1) ==
  IF ps[1].is_dead THEN NoLockResult(ps[1], ps[2])
  ELSE UpdatePlayer(ps[1], ps[2], dt, d1)

UpdateLoop(ps, r1, dt, d2) ==
  UpdateSecond(r1, ~ps[1].is_dead /\ r1.player.is_dead, dt, d2)

UpdateDebuffed(ps, dt, d1, d2) ==
  UpdateLoop(ps, UpdateFirst(ps, dt, d1), dt, d2)

Debuffed(ps0, current_time) ==
  << update_debuffs(ps0[1], current_time),
     update_debuffs(ps0[2], current_time) >>

UpdatePlayers(ps0, dt, d1, d2) ==
  UpdateDebuffed(Debuffed(ps0, now + dt), dt, d1, d2)

\* The draws of the two passes: none unless the pass locks; the garbage
\* rows of player 2's pass depend on player 1's.
FirstDraws(ps0, dt) ==
  IF ~ps0[1].is_dead /\ LockDue(UpdateFall(Debuffed(ps0, now + dt)[1], dt))
  THEN LockDraws(ps0[1]) ELSE {NoDraw}

SecondDraws(ps0, dt, d1) ==
  IF ~ps0[2].is_dead /\ LockDue(UpdateFall(Debuffed(ps0, now + dt)[2], dt))
  THEN LockDraws(UpdatePlayers(ps0, dt, d1, NoDraw).players[2])
  ELSE {NoDraw}

\* The assignments of update from the loop's result r.
UpdateAssign(r) ==
  /\ players' = r.players
  /\ obs' = r.lock
  /\ locks' = CountLocks(r.lock)
  /\ \A i \in 1..2 : locks'[i] <= MaxLocks
  /\ state' = IF r.ended THEN GAME_OVER ELSE state
  /\ winner' = IF r.ended THEN _end_game(r.players) ELSE winner

\* BattleGame.update(dt); time.time() has advanced by the frame's dt.
\* Ordinary frames are taken up to the time horizon.
update(dt, horizon) ==
  /\ pc = "update"
  /\ \/ now + dt <= horizon
     \/ dt >= BATTLE_DURATION /\ now < BATTLE_DURATION
  /\ now' = now + dt
  /\ pc' = IF running THEN "events" ELSE "quit"
  /\ IF state # PLAYING
     THEN /\ obs' = NoLocks
          /\ UNCHANGED <<players, state, winner, time_remaining, locks>>
     ELSE /\ time_remaining' =
               (IF BATTLE_DURATION - (now' - game_start_time) > 0
                THEN BATTLE_DURATION - (now' - game_start_time) ELSE 0)
          /\ IF time_remaining' <= 0
             THEN /\ state' = GAME_OVER
                  /\ winner' = _end_game(players)
                  /\ obs' = NoLocks
                  /\ UNCHANGED <<players, locks>>
             ELSE \E d1 \in FirstDraws(players, dt) :
                    \E d2 \in SecondDraws(players, dt, d1) :
                      UpdateAssign(UpdatePlayers(players, dt, d1, d2))
  /\ UNCHANGED <<game_start_time, running, probe_vars, online_vars>>

\* Two players on one keyboard: player 1 moves and hard-drops, player 2
\* hard-drops; frames of 250 ms up to BattleHorizon, or the frame at which
\* the match has run out; R after a game over.
BattleNext ==
  \/ handle_event_control(1, "space")
  \/ handle_event_control(2, "return")
  \/ handle_event_restart
  \/ \E held \in BattleHeld : handle_input(held)
  \/ \E dt \in DtDraws : update(dt, BattleHorizon)

SpecBattle == BattleInit /\ [][BattleNext]_vars

\* Player 2 starts with O, O and presses nothing.
SoloInit ==
  /\ BattleInit
  /\ players[2].current_block.type = "O"
  /\ players[2].next_block = "O"

\* Player 1 rotates, hard-drops, holds, moves and soft-drops.
HoldNext ==
  \/ \E key \in HoldKeys : handle_event_control(1, key)
  \/ \E held \in HoldHeld : handle_input(held)
  \/ update(FrameDt, HoldHorizon)

SpecHold == SoloInit /\ [][HoldNext]_vars

\* The board on which a horizontal I does not span a whole row.
WideWidth == 5

\* BattleGame.__init__ with boards of WideWidth columns; player 2 starts
\* with O, O and presses nothing.
WideInit ==
  /\ \E d1 \in SpawnDraws(BattlePlayer(1, NewBoard(WideWidth, GridHeight))),
        n1 \in PieceDraws :
       players =
         << [_spawn_block(BattlePlayer(1, NewBoard(WideWidth, GridHeight)), d1)
               EXCEPT !.next_block = n1],
            [_spawn_block(BattlePlayer(2, NewBoard(WideWidth, GridHeight)),
                          Draw("O", "O", None, << >>))
               EXCEPT !.next_block = "O"] >>
  /\ state = PLAYING
  /\ winner = 0
  /\ time_remaining = BATTLE_DURATION
  /\ game_start_time = 0
  /\ now = 0
  /\ running = TRUE
  /\ pc = "events"
  /\ obs = NoLocks
  /\ locks = <<0, 0>>
  /\ ProbeIdle
  /\ OnlineIdle

SpecWide == WideInit /\ [][HoldNext]_vars

\* Player 1 rotates and soft-drops while gravity and the lock delay run;
\* ESC pauses.
LockDelayNext ==
  \/ handle_event_control(1, "w")
  \/ handle_event_escape
  \/ \E held \in LockDelayHeld : handle_input(held)
  \/ update(FrameDt, TimeHorizon)

SpecLockDelay == SoloInit /\ [][LockDelayNext]_vars

\* Player 1 moves sideways, soft-drops and rotates while gravity and the
\* lock delay run.
MoveHeld == { {}, {"a"}, {"s"} }

MoveNext ==
  \/ handle_event_control(1, "w")
  \/ \E held \in MoveHeld : handle_input(held)
  \/ update(FrameDt, TimeHorizon)

SpecMove == SoloInit /\ [][MoveNext]_vars

\* --------------------------------------------------------- OnlineBattleGame
\* The game from the end of _setup_online_game on (_use_server_blocks is
\* True).  idx is [my, opp]: my_block_index and opponent_block_index.

\* A _get_next_block_type that advances the local index by two.
_get_next_block_type_Skip(is_local, idx, fallback) ==
  IF is_local
  THEN IF idx.my < Len(my_block_sequence)
       THEN [type |-> my_block_sequence[idx.my + 1],
             idx |-> [idx EXCEPT !.my = @ + 2]]
       ELSE [type |-> fallback, idx |-> idx]
  ELSE IF idx.opp < Len(opponent_block_sequence)
       THEN [type |-> opponent_block_sequence[idx.opp + 1],
             idx |-> [idx EXCEPT !.opp = @ + 1]]
       ELSE [type |-> fallback, idx |-> idx]

\* OnlineBattleGame._get_next_block_type: the type and the indices after.
_get_next_block_type(is_local, idx, fallback) ==
  IF is_local
  THEN IF idx.my < Len(my_block_sequence)
       THEN [type |-> my_block_sequence[idx.my + 1],
             idx |-> [idx EXCEPT !.my = @ + 1]]
       ELSE [type |-> fallback, idx |-> idx]
  ELSE IF idx.opp < Len(opponent_block_sequence)
       THEN [type |-> opponent_block_sequence[idx.opp + 1],
             idx |-> [idx EXCEPT !.opp = @ + 1]]
       ELSE [type |-> fallback, idx |-> idx]

\* OnlineBattleGame._spawn_block: the player and the indices after.
OnlineSpawnNext(player, cur, nb) ==
  [player |-> SpawnCentred([player EXCEPT !.next_block = nb.type], cur),
   idx |-> nb.idx]

OnlineSpawnFrom(player, first, draw) ==
  OnlineSpawnNext(IF player.is_local THEN SpawnPowerup(player, draw.powerup)
                  ELSE player,
                  create_tetromino(first.type),
                  _get_next_block_type(player.is_local, first.idx, draw.next))

_spawn_block_online(player, idx, draw) ==
  OnlineSpawnFrom(player,
                  IF player.next_block # None
                  THEN [type |-> player.next_block, idx |-> idx]
                  ELSE _get_next_block_type(player.is_local, idx, draw.first),
                  draw)

\* BattleGame._lock_block as OnlineBattleGame runs it (with its own
\* _spawn_block): the hard drop's lock.
OnlineSpawnAfterLock(r, spawned) ==
  [player |-> spawned.player, opponent |-> r.opponent, lock |-> r.lock,
   idx |-> spawned.idx, sent |-> << >>]

OnlineLockSpawn(r, idx, draw) ==
  OnlineSpawnAfterLock(r, _spawn_block_online(r.player, idx, draw))

OnlineNoLock(player, opponent, idx) ==
  [player |-> player, opponent |-> opponent, lock |-> NoLock, idx |-> idx,
   sent |-> << >>]

OnlineLock(player, opponent, idx, draw, via) ==
  IF player.current_block = NoBlock THEN OnlineNoLock(player, opponent, idx)
  ELSE OnlineLockSpawn(LockBeforeSpawn(player, opponent, draw.gaps, via),
                       idx, draw)

\* OnlineBattleGame._lock_block_online: after the lock, the garbage counted
\* for the opponent is taken back and sent; lines_cleared is player.lines
\* minus lines_before.
GarbageSent(r, lines_cleared) ==
  IF lines_cleared >= 2
  THEN [r EXCEPT
          !.opponent.pending_garbage =
             IF @ - (lines_cleared - 1) > 0 THEN @ - (lines_cleared - 1)
             ELSE 0,
          !.sent = << [type |-> "GARBAGE", lines |-> lines_cleared - 1] >>]
  ELSE r

GarbageSentSince(r, lines_before) ==
  GarbageSent(r, r.player.lines - lines_before)

_lock_block_online(player, opponent, idx, draw) ==
  GarbageSentSince(OnlineLock(player, opponent, idx, draw, "lock_delay"),
                   player.lines)

\* BattleGame._hard_drop and _hold_block as OnlineBattleGame runs them.
_hard_drop_online(player, opponent, idx, draw) ==
  IF player.current_block = NoBlock THEN OnlineNoLock(player, opponent, idx)
  ELSE OnlineLock(Dropped(player,
                          DropFrom(player.board, player.current_block, 0)),
                  opponent, idx, draw, "hard_drop")

HoldSpawned(spawned) == [spawned EXCEPT !.player.can_hold = FALSE]

_hold_block_online(player, idx, draw) ==
  IF ~player.can_hold \/ player.current_block = NoBlock
  THEN [player |-> player, idx |-> idx]
  ELSE IF player.hold_block # None
       THEN [player |-> HoldSwapped(player), idx |-> idx]
       ELSE HoldSpawned(_spawn_block_online(HoldStored(player), idx, draw))

\* JSON values on the wire: a number, or an array (a colour).
JsonNumber(n) == [json |-> "number", value |-> n]
JsonArray(v) == [json |-> "array", value |-> v]

\* NetworkManager.send_state: "list(cell) if cell else 0" for every cell.
SerialiseGrid(grid) ==
  [y \in 1..Len(grid) |->
     [x \in 1..Len(grid[y]) |->
        IF grid[y][x] # None THEN JsonArray(grid[y][x]) ELSE JsonNumber(0)]]

\* The STATE payload; the piece goes without its shape.
StateMessage(player) ==
  [type |-> "STATE", score |-> player.score, lines |-> player.lines,
   grid |-> SerialiseGrid(player.board.grid),
   piece |-> IF player.current_block # NoBlock
             THEN [x |-> player.current_block.x,
                   y |-> player.current_block.y,
                   rotation |-> player.current_block.rotation,
                   color |-> JsonArray(ColorOf(player.current_block))]
             ELSE [x |-> 0, y |-> 0, rotation |-> 0, color |-> JsonNumber(0)]]

\* dict.get(key, default)
Get(data, key, default) == IF key \in DOMAIN data THEN data[key] ELSE default

\* The display-only Block _handle_opponent_state builds from a piece that
\* carries a shape: that single matrix, rotation 0.
VisualBlock(piece) ==
  [type |-> "visual", shape |-> << piece.shape >>, color |-> piece.color,
   x |-> piece.x, y |-> piece.y, rotation |-> 0]

\* _handle_opponent_state writing the occupied cells only.
_handle_opponent_state_KeepFilled(remote_player, data) ==
  [remote_player EXCEPT
     !.board.grid =
        IF "grid" \in DOMAIN data
        THEN [y \in 1..Len(@) |->
                IF y <= Len(data.grid)
                THEN [x \in 1..Len(@[y]) |->
                        IF x <= Len(data.grid[y])
                        THEN IF data.grid[y][x].json = "number"
                                /\ data.grid[y][x].value = 0
                             THEN @[y][x] ELSE data.grid[y][x].value
                        ELSE @[y][x]]
                ELSE @[y]]
        ELSE @,
     !.score = Get(data, "score", @),
     !.lines = Get(data, "lines", @),
     !.current_block =
        IF "piece" \in DOMAIN data /\ "shape" \in DOMAIN data.piece
        THEN VisualBlock(data.piece) ELSE @]

\* OnlineBattleGame._handle_opponent_state: "None if cell == 0 else
\* tuple(cell)" for every cell, then the score and the lines, then the piece
\* "if piece_data and 'shape' in piece_data".  The piece send_state writes
\* has no shape, so for a relayed STATE current_block stays.
_handle_opponent_state(remote_player, data) ==
  [remote_player EXCEPT
     !.board.grid =
        IF "grid" \in DOMAIN data
        THEN [y \in 1..Len(@) |->
                IF y <= Len(data.grid)
                THEN [x \in 1..Len(@[y]) |->
                        IF x <= Len(data.grid[y])
                        THEN IF data.grid[y][x].json = "number"
                                /\ data.grid[y][x].value = 0
                             THEN None ELSE data.grid[y][x].value
                        ELSE @[y][x]]
                ELSE @[y]]
        ELSE @,
     !.score = Get(data, "score", @),
     !.lines = Get(data, "lines", @),
     !.current_block =
        IF "piece" \in DOMAIN data /\ "shape" \in DOMAIN data.piece
        THEN VisualBlock(data.piece) ELSE @]

\* A DEBUFF branch that applies whatever name it is given.
HandleDebuff_AnyName(g, role, msg, current_time) ==
  [g EXCEPT !.players[role] =
     apply_debuff(@, Get(msg, "debuff", ""), current_time)]

\* _process_network_events, the DEBUFF branch: BattlePowerUpType(name)
\* raises ValueError for a name that is no member, and the except clause
\* only logs.
HandleDebuff(g, role, msg, current_time) ==
  IF Get(msg, "debuff", "") \in BattlePowerUpType
  THEN [g EXCEPT !.players[role] =
          apply_debuff(@, Get(msg, "debuff", ""), current_time)]
  ELSE g

\* One pass of the loop of _process_network_events over g, the fields the
\* loop writes: [players, server_time_remaining, time_remaining,
\* opponent_disconnected, game_result, state].
HandleMessage(g, role, msg, current_time) ==
  CASE Get(msg, "type", None) = "OPPONENT_STATE" ->
         [g EXCEPT !.players[Other(role)] = _handle_opponent_state(@, msg)]
    [] Get(msg, "type", None) = "GARBAGE" ->
         [g EXCEPT !.players[role].pending_garbage = @ + Get(msg, "lines", 0)]
    [] Get(msg, "type", None) = "TIME_SYNC" ->
         [g EXCEPT !.server_time_remaining = Get(msg, "remaining", 0),
                   !.time_remaining = Get(msg, "remaining", 0)]
    [] Get(msg, "type", None) = "OPPONENT_DISCONNECTED" ->
         [g EXCEPT !.opponent_disconnected = TRUE,
                   !.game_result = [winner |-> role,
                                    reason |-> "OPPONENT_DISCONNECTED"],
                   !.state = GAME_OVER]
    [] Get(msg, "type", None) = "GAME_END" ->
         [g EXCEPT !.game_result = [winner |-> Get(msg, "winner", 0),
                                    reason |-> Get(msg, "reason", "UNKNOWN")],
                   !.state = GAME_OVER]
    [] Get(msg, "type", None) = "DEBUFF" ->
         HandleDebuff(g, role, msg, current_time)
    [] OTHER -> g

RECURSIVE ProcessFrom(_, _, _, _, _)
ProcessFrom(g, role, msgs, i, current_time) ==
  IF i > Len(msgs) THEN g
  ELSE ProcessFrom(HandleMessage(g, role, msgs[i], current_time),
                   role, msgs, i + 1, current_time)

\* OnlineBattleGame._end_game_online: the winner.
_end_game_online(ps, role) ==
  IF ps[role].is_dead THEN Other(role)
  ELSE IF ps[Other(role)].is_dead THEN role
  ELSE IF ps[role].score > ps[Other(role)].score THEN role
  ELSE IF ps[role].score < ps[Other(role)].score THEN Other(role)
  ELSE 0

\* _update_online, "Apply pending garbage".
PendingApplied(player, gaps) ==
  IF player.pending_garbage > 0
  THEN [player EXCEPT
          !.board = _add_garbage_lines(@, player.pending_garbage, gaps),
          !.pending_garbage = 0]
  ELSE player

\* _update_online for the live local player: the pending garbage, the fall
\* and lock timers, the lock.
OnlineUpdateLock(fallen, opponent, idx, draw) ==
  IF LockDue(fallen) THEN _lock_block_online(fallen, opponent, idx, draw)
  ELSE OnlineNoLock(fallen, opponent, idx)

\* _update_online running the fall of the remote player's piece as well.
OnlineUpdateLocal_BothFall(player, opponent, idx, dt, draw) ==
  OnlineUpdateLock(UpdateFall(PendingApplied(player, draw.gaps), dt),
                   UpdateFall(opponent, dt), idx, draw)

OnlineUpdateLocal(player, opponent, idx, dt, draw) ==
  OnlineUpdateLock(UpdateFall(PendingApplied(player, draw.gaps), dt),
                   opponent, idx, draw)

\* The draws of an online spawn: a random type only where the sequence has
\* run out.
SequenceLeft(player, idx) ==
  IF player.is_local THEN Len(my_block_sequence) - idx.my
  ELSE Len(opponent_block_sequence) - idx.opp

OnlineSpawnDraws(player, idx) ==
  { Draw(f, n, pw, << >>) :
      f \in (IF player.next_block = None /\ SequenceLeft(player, idx) <= 0
             THEN PieceDraws ELSE {None}),
      n \in (IF SequenceLeft(player, idx)
                  <= (IF player.next_block = None THEN 1 ELSE 0)
             THEN PieceDraws ELSE {None}),
      pw \in PowerupDraws }

OnlineLockDraws(player, idx) ==
  { [d EXCEPT !.gaps = g] : d \in OnlineSpawnDraws(player, idx),
      g \in [1..player.pending_garbage -> GapDraws] }

\* A grid as a relayed STATE carries it: gray in the bottom left cell.
SampleGrid ==
  SerialiseGrid([NewBoard(GridWidth, GridHeight)
                   EXCEPT !.grid[GridHeight][1] = COLOR_GRAY].grid)

\* The messages network.get_event() hands over.
InboundDraws ==
  { [type |-> "OPPONENT_STATE", grid |-> SampleGrid, score |-> 40,
     lines |-> 0],
    [type |-> "GARBAGE", lines |-> 1],
    [type |-> "TIME_SYNC", remaining |-> 0],
    [type |-> "OPPONENT_DISCONNECTED"],
    [type |-> "GAME_END", winner |-> 1, reason |-> "TOP_OUT"],
    [type |-> "DEBUFF", debuff |-> "reverse", duration |-> 6000] }

BatchDraws == { << >> } \cup { << m >> : m \in InboundDraws }

\* The players after _setup_online_game: fresh boards, the is_local flags,
\* player 1 spawned, then player 2.
SetupPlayer(player_id, role) ==
  [BattlePlayer(player_id, NewBoard(GridWidth, GridHeight))
     EXCEPT !.is_local = (role = player_id)]

SetupSecond(first, role) ==
  [players |-> << first.player,
                  _spawn_block_online(SetupPlayer(2, role), first.idx,
                                      NoDraw).player >>,
   idx |-> _spawn_block_online(SetupPlayer(2, role), first.idx, NoDraw).idx]

_setup_online_game(role) ==
  SetupSecond(_spawn_block_online(SetupPlayer(1, role),
                                  [my |-> 0, opp |-> 0], NoDraw), role)

\* connect_and_wait has returned True: MATCH_START gave the role and the two
\* block sequences, _setup_online_game has run.
OnlineInit ==
  /\ local_role \in 1..2
  /\ my_block_sequence \in [1..SeqLen -> PieceDraws]
  /\ opponent_block_sequence = [i \in 1..SeqLen |-> "O"]
  /\ players = _setup_online_game(local_role).players
  /\ block_index = _setup_online_game(local_role).idx
  /\ state = PLAYING
  /\ winner = 0
  /\ time_remaining = BATTLE_DURATION
  /\ game_start_time = 0
  /\ now = 0
  /\ running = TRUE
  /\ pc = "network"
  /\ obs = NoLocks
  /\ locks = <<0, 0>>
  /\ ProbeIdle
  /\ game_result = NoResult
  /\ server_time_remaining = BATTLE_DURATION
  /\ opponent_disconnected = FALSE
  /\ connected = TRUE
  /\ _sync_counter = 0
  /\ sent = << >>

\* The assignments of _process_network_events from the loop's result g.
NetworkAssign(g) ==
  /\ players' = g.players
  /\ server_time_remaining' = g.server_time_remaining
  /\ time_remaining' = g.time_remaining
  /\ opponent_disconnected' = g.opponent_disconnected
  /\ game_result' = g.game_result
  /\ state' = g.state

\* OnlineBattleGame._process_network_events on the events msgs.
_process_network_events(msgs) ==
  /\ pc = "network"
  /\ NetworkAssign(
       ProcessFrom([players |-> players,
                    server_time_remaining |-> server_time_remaining,
                    time_remaining |-> time_remaining,
                    opponent_disconnected |-> opponent_disconnected,
                    game_result |-> game_result,
                    state |-> state],
                   local_role, msgs, 1, now))
  /\ pc' = "events"
  /\ obs' = NoLocks
  /\ sent' = << >>
  /\ UNCHANGED <<winner, game_start_time, now, running, locks, probe_vars,
                 local_role, connected, my_block_sequence,
                 opponent_block_sequence, block_index, _sync_counter>>

\* The branch of _handle_event_online for one key of the local player.
OnlineControl(key, draw) ==
  CASE key = "space" ->
         _hard_drop_online(players[local_role], players[Other(local_role)],
                           block_index, draw)
    [] key \in {"up", "x"} ->
         OnlineNoLock(_rotate_block(players[local_role], TRUE),
                      players[Other(local_role)], block_index)
    [] key = "z" ->
         OnlineNoLock(_rotate_block(players[local_role], FALSE),
                      players[Other(local_role)], block_index)
    [] key = "c" ->
         OnlineNoLock(
           _hold_block_online(players[local_role], block_index, draw).player,
           players[Other(local_role)],
           _hold_block_online(players[local_role], block_index, draw).idx)

OnlineControlDraws(key) ==
  CASE key = "space" -> OnlineLockDraws(players[local_role], block_index)
    [] key = "c" ->
         (IF players[local_role].can_hold
             /\ players[local_role].hold_block = None
          THEN OnlineSpawnDraws(players[local_role], block_index)
          ELSE {NoDraw})
    [] OTHER -> {NoDraw}

OnlineLocks(r) ==
  [j \in 1..2 |-> IF j = local_role THEN r.lock ELSE NoLock]

\* The assignments from the result r of a handler that acts on the local
\* player.
OnlineAssign(r) ==
  /\ players' = SetPair(players, local_role, r)
  /\ block_index' = r.idx
  /\ sent' = r.sent
  /\ obs' = OnlineLocks(r)
  /\ locks' = CountLocks(OnlineLocks(r))
  /\ locks'[local_role] <= MaxLocks

\* _handle_event_online, KEYDOWN of a control key.
handle_event_online_control(key) ==
  /\ pc = "events"
  /\ state = PLAYING /\ ~players[local_role].is_dead
  /\ \E draw \in OnlineControlDraws(key) :
       OnlineAssign(OnlineControl(key, draw))
  /\ UNCHANGED <<state, winner, time_remaining, game_start_time, now,
                 running, pc, probe_vars, local_role, connected, game_result,
                 server_time_remaining, opponent_disconnected,
                 my_block_sequence, opponent_block_sequence, _sync_counter>>

\* _handle_event_online, KEYDOWN K_ESCAPE: returns False, the loop ends
\* after this iteration.
handle_event_online_escape ==
  /\ pc = "events"
  /\ running
  /\ running' = FALSE
  /\ obs' = NoLocks
  /\ sent' = << >>
  /\ UNCHANGED <<players, state, winner, time_remaining, game_start_time,
                 now, pc, locks, probe_vars, local_role, connected, game_result,
                 server_time_remaining, opponent_disconnected,
                 my_block_sequence, opponent_block_sequence, block_index,
                 _sync_counter>>

\* OnlineBattleGame._handle_input_online.
_handle_input_online(held) ==
  /\ pc = "events"
  /\ players' =
       IF state = PLAYING /\ ~players[local_role].is_dead
       THEN [players EXCEPT ![local_role] =
                              HeldMoves(@, "left", "right", "down", held)]
       ELSE players
  /\ pc' = "update"
  /\ obs' = NoLocks
  /\ sent' = << >>
  /\ UNCHANGED <<state, winner, time_remaining, game_start_time, now,
                 running, locks, probe_vars, local_role, connected, game_result,
                 server_time_remaining, opponent_disconnected,
                 my_block_sequence, opponent_block_sequence, block_index,
                 _sync_counter>>

\* "Check death" at the end of _update_online: send_game_over and
\* _end_game_online.
DeathChecked(r) ==
  /\ sent' = IF r.player.is_dead
             THEN r.sent \o << [type |-> "GAME_OVER"] >> ELSE r.sent
  /\ state' = IF r.player.is_dead THEN GAME_OVER ELSE state
  /\ game_result' =
       IF r.player.is_dead
       THEN [winner |-> _end_game_online(SetPair(players, local_role, r),
                                         local_role),
             reason |-> "TIMEOUT"]
       ELSE game_result

OnlineUpdateAssign(r) ==
  /\ players' = SetPair(players, local_role, r)
  /\ block_index' = r.idx
  /\ obs' = OnlineLocks(r)
  /\ locks' = CountLocks(OnlineLocks(r))
  /\ locks'[local_role] <= MaxLocks
  /\ DeathChecked(r)

OnlineUpdateDraws(ps, dt) ==
  IF LockDue(UpdateFall(PendingApplied(ps[local_role],
                                       [i \in 1..GridHeight |-> 0]), dt))
  THEN OnlineLockDraws(ps[local_role], block_index)
  ELSE { [NoDraw EXCEPT !.gaps = g] :
           g \in [1..ps[local_role].pending_garbage -> GapDraws] }

\* _update_online from "Update debuffs" on; ps are the players after
\* update_debuffs.
OnlineUpdatePlayers(ps, dt) ==
  IF ps[local_role].is_dead
  THEN /\ players' = ps
       /\ obs' = NoLocks
       /\ sent' = << >>
       /\ UNCHANGED <<state, game_result, block_index, locks>>
  ELSE \E draw \in OnlineUpdateDraws(ps, dt) :
         OnlineUpdateAssign(
           OnlineUpdateLocal(ps[local_role], ps[Other(local_role)],
                             block_index, dt, draw))

\* OnlineBattleGame._update_online(dt); time.time() has advanced by the
\* frame's dt.  Ordinary frames are taken up to the time horizon.
_update_online(dt, horizon) ==
  /\ pc = "update"
  /\ \/ now + dt <= horizon
     \/ dt >= BATTLE_DURATION /\ now < BATTLE_DURATION
  /\ now' = now + dt
  /\ pc' = "sync"
  /\ IF state # PLAYING
     THEN /\ obs' = NoLocks
          /\ sent' = << >>
          /\ UNCHANGED <<players, state, time_remaining, game_result,
                         block_index, locks>>
     ELSE /\ time_remaining' =
               (IF server_time_remaining > 0 THEN server_time_remaining
                ELSE IF BATTLE_DURATION - (now' - game_start_time) > 0
                     THEN BATTLE_DURATION - (now' - game_start_time)
                     ELSE 0)
          /\ IF time_remaining' <= 0
             THEN /\ state' = GAME_OVER
                  /\ game_result' =
                       [winner |-> _end_game_online(players, local_role),
                        reason |-> "TIMEOUT"]
                  /\ obs' = NoLocks
                  /\ sent' = << >>
                  /\ UNCHANGED <<players, block_index, locks>>
             ELSE OnlineUpdatePlayers(Debuffed(players, now'), dt)
  /\ UNCHANGED <<winner, game_start_time, running, probe_vars, local_role, connected,
                 server_time_remaining, opponent_disconnected,
                 my_block_sequence, opponent_block_sequence, _sync_counter>>

\* OnlineBattleGame._sync_state, then the loop's test of running.
_sync_state ==
  /\ pc = "sync"
  /\ pc' = IF running THEN "network" ELSE "quit"
  /\ _sync_counter' = IF state = PLAYING THEN _sync_counter + 1
                      ELSE _sync_counter
  /\ sent' = IF state = PLAYING /\ _sync_counter' % 3 = 0
             THEN << StateMessage(players[local_role]) >> ELSE << >>
  /\ obs' = NoLocks
  /\ UNCHANGED <<players, state, winner, time_remaining, game_start_time,
                 now, running, locks, probe_vars, local_role, connected, game_result,
                 server_time_remaining, opponent_disconnected,
                 my_block_sequence, opponent_block_sequence, block_index>>

\* The local player hard-drops and moves left; at most one message arrives
\* per frame.
OnlineNext ==
  \/ \E msgs \in BatchDraws : _process_network_events(msgs)
  \/ handle_event_online_control("space")
  \/ handle_event_online_escape
  \/ \E held \in OnlineHeld : _handle_input_online(held)
  \/ \E dt \in DtDraws : _update_online(dt, OnlineHorizon)
  \/ _sync_state

SpecOnline == OnlineInit /\ [][OnlineNext]_vars

\* MATCH_START with sequences of LongSeqLen types; the local player
\* hard-drops, holds and moves left, and no message arrives.
SequenceInit ==
  /\ local_role \in 1..2
  /\ my_block_sequence \in [1..LongSeqLen -> PieceDraws]
  /\ opponent_block_sequence = [i \in 1..LongSeqLen |-> "O"]
  /\ players = _setup_online_game(local_role).players
  /\ block_index = _setup_online_game(local_role).idx
  /\ state = PLAYING
  /\ winner = 0
  /\ time_remaining = BATTLE_DURATION
  /\ game_start_time = 0
  /\ now = 0
  /\ running = TRUE
  /\ pc = "network"
  /\ obs = NoLocks
  /\ locks = <<0, 0>>
  /\ ProbeIdle
  /\ game_result = NoResult
  /\ server_time_remaining = BATTLE_DURATION
  /\ opponent_disconnected = FALSE
  /\ connected = TRUE
  /\ _sync_counter = 0
  /\ sent = << >>

SequenceNext ==
  \/ _process_network_events(<< >>)
  \/ handle_event_online_control("space")
  \/ handle_event_online_control("c")
  \/ \E held \in OnlineHeld : _handle_input_online(held)
  \/ _update_online(FrameDt, OnlineHorizon)
  \/ _sync_state

SpecSequence == SequenceInit /\ [][SequenceNext]_vars

\* MATCH_START with the local sequence all I; the local player rotates,
\* moves left, hard-drops or waits for the lock delay.  The opponent's
\* GARBAGE messages arrive in the first frame.
ClearInit ==
  /\ SequenceInit
  /\ local_role = 1
  /\ \A i \in 1..LongSeqLen : my_block_sequence[i] = "I"

ClearBatches(t) ==
  IF t = 0
  THEN { << >> } \cup { << [type |-> "GARBAGE", lines |-> k] >> : k \in 2..4 }
  ELSE { << >> }

ClearNext ==
  \/ \E msgs \in ClearBatches(now) : _process_network_events(msgs)
  \/ handle_event_online_control("up")
  \/ handle_event_online_control("space")
  \/ \E held \in OnlineHeld : _handle_input_online(held)
  \/ _update_online(FrameDt, TimeHorizon)
  \/ _sync_state

SpecClear == ClearInit /\ [][ClearNext]_vars

\* BattlePlayer.use_powerup: pops the first power-up, or returns None.
use_powerup(player) ==
  IF Len(player.powerups) > 0
  THEN [player |-> [player EXCEPT !.powerups = Tail(@)],
        powerup |-> Head(player.powerups)]
  ELSE [player |-> player, powerup |-> None]

\* OnlineBattleGame._use_powerup: after use_powerup has returned a power-up,
\* self.network.send_debuff is looked up; NetworkManager defines no such
\* attribute, so AttributeError is raised before any message is built.
_use_powerup_online(player) ==
  [player |-> use_powerup(player).player,
   sent |-> << >>,
   ret |-> IF use_powerup(player).powerup # None THEN "AttributeError"
           ELSE "None"]

\* _handle_event_online, KEYDOWN K_LSHIFT or K_RSHIFT.  Neither
\* _handle_event_online nor run_async catches the exception: the loop is
\* left at "fault".
handle_event_online_shift ==
  /\ pc = "events"
  /\ state = PLAYING /\ ~players[local_role].is_dead
  /\ players' = [players EXCEPT
                   ![local_role] = _use_powerup_online(@).player]
  /\ sent' = _use_powerup_online(players[local_role]).sent
  /\ pc' = IF _use_powerup_online(players[local_role]).ret = "AttributeError"
           THEN "fault" ELSE pc
  /\ obs' = NoLocks
  /\ UNCHANGED <<state, winner, time_remaining, game_start_time, now,
                 running, locks, probe_vars, local_role, connected, game_result,
                 server_time_remaining, opponent_disconnected,
                 my_block_sequence, opponent_block_sequence, block_index,
                 _sync_counter>>

\* The inventories a local player can hold: each spawn of the local player
\* may add one power-up, up to two.
PowerupStocks ==
  { << >> } \cup { << p >> : p \in BattlePowerUpType }
    \cup { << p, q >> : p \in BattlePowerUpType, q \in BattlePowerUpType }

\* MATCH_START, the spawns so far having left the local player some
\* inventory; the local player uses power-ups and hard-drops.
PowerupInit ==
  /\ local_role \in 1..2
  /\ my_block_sequence = [i \in 1..LongSeqLen |-> "O"]
  /\ opponent_block_sequence = [i \in 1..LongSeqLen |-> "O"]
  /\ \E stock \in PowerupStocks :
       players = [_setup_online_game(local_role).players
                    EXCEPT ![local_role].powerups = stock]
  /\ block_index = _setup_online_game(local_role).idx
  /\ state = PLAYING
  /\ winner = 0
  /\ time_remaining = BATTLE_DURATION
  /\ game_start_time = 0
  /\ now = 0
  /\ running = TRUE
  /\ pc = "network"
  /\ obs = NoLocks
  /\ locks = <<0, 0>>
  /\ ProbeIdle
  /\ game_result = NoResult
  /\ server_time_remaining = BATTLE_DURATION
  /\ opponent_disconnected = FALSE
  /\ connected = TRUE
  /\ _sync_counter = 0
  /\ sent = << >>

PowerupNext ==
  \/ _process_network_events(<< >>)
  \/ handle_event_online_shift
  \/ handle_event_online_control("space")
  \/ \E held \in OnlineHeld : _handle_input_online(held)
  \/ _update_online(FrameDt, OnlineHorizon)
  \/ _sync_state

SpecPowerup == PowerupInit /\ [][PowerupNext]_vars

\* NetworkManager._receive_loop_desktop fails (or send does): connected
\* becomes False.  The receive task runs while the loop awaits, at the top
\* of a frame.  Nothing else is written.
connection_lost ==
  /\ pc = "network"
  /\ state = PLAYING
  /\ connected
  /\ connected' = FALSE
  /\ UNCHANGED <<players, state, winner, time_remaining, game_start_time,
                 now, running, pc, obs, locks, probe_vars, local_role,
                 game_result, server_time_remaining, opponent_disconnected,
                 my_block_sequence, opponent_block_sequence, block_index,
                 _sync_counter, sent>>

\* _update_online once the match is over: it returns at its first test and
\* the clock is not read any more, so its value is left as it is.
_update_online_over ==
  /\ pc = "update"
  /\ state # PLAYING
  /\ pc' = "sync"
  /\ obs' = NoLocks
  /\ sent' = << >>
  /\ UNCHANGED <<players, state, winner, time_remaining, game_start_time,
                 now, running, locks, probe_vars, local_role, connected,
                 game_result, server_time_remaining, opponent_disconnected,
                 my_block_sequence, opponent_block_sequence, block_index,
                 _sync_counter>>

\* MATCH_START with all-O sequences; no key is pressed and no message
\* arrives, the pieces fall and lock by themselves until the local player
\* tops out, and the connection may be lost in any frame of the match.
DisconnectInit ==
  /\ SequenceInit
  /\ \A i \in 1..LongSeqLen : my_block_sequence[i] = "O"

\* One step of run_async's loop.
DisconnectFrame ==
  \/ _process_network_events(<< >>)
  \/ _handle_input_online({})
  \/ _update_online(FrameDt, DisconnectHorizon)
  \/ _update_online_over
  \/ _sync_state

DisconnectNext ==
  \/ connection_lost
  \/ DisconnectFrame

\* The steps of the loop are the steps that move pc, each to the next of
\* the loop's positions.
LoopStep == pc' \in {"network", "events", "update", "sync"} \ {pc}

\* The loop of run_async goes on as long as running is True: it keeps
\* taking steps.
SpecDisconnect ==
  DisconnectInit /\ [][DisconnectNext]_vars /\ WF_pc(LoopStep)

\* ------------------------------------------------ inbound messages with
\* missing fields, unknown types and unknown debuff names

\* What network.get_event() hands over in one frame: OPPONENT_STATE payloads
\* with some of grid, score, lines and piece left out, messages of a type
\* the loop does not know, DEBUFF messages naming no BattlePowerUpType, and
\* two well-formed messages.
InboundPayloads ==
  { [type |-> "OPPONENT_STATE"],
    [type |-> "OPPONENT_STATE", grid |-> SampleGrid],
    [type |-> "OPPONENT_STATE", score |-> 40],
    [type |-> "OPPONENT_STATE", lines |-> 3],
    [type |-> "OPPONENT_STATE",
     piece |-> [shape |-> << <<1, 1>>, <<1, 1>> >>, color |-> COLOR_GRAY,
                x |-> 0, y |-> 1]],
    [type |-> "OPPONENT_STATE", grid |-> SampleGrid, score |-> 40,
     lines |-> 3],
    [type |-> "PING"],
    [kind |-> "OPPONENT_STATE"],
    [type |-> "DEBUFF", debuff |-> "banana", duration |-> 5000],
    [type |-> "DEBUFF", duration |-> 5000],
    [type |-> "DEBUFF", debuff |-> "fog", duration |-> 10000] }

\* The game state _process_network_events can write.
InboundState ==
  [players |-> players, server_time_remaining |-> server_time_remaining,
   time_remaining |-> time_remaining,
   opponent_disconnected |-> opponent_disconnected,
   game_result |-> game_result, state |-> state]

\* _process_network_events on the events msgs, with the events and the
\* state before them kept for inspection.
receive_events(msgs) ==
  /\ pc = "network"
  /\ NetworkAssign(ProcessFrom(InboundState, local_role, msgs, 1, now))
  /\ pc' = "events"
  /\ obs' = NoLocks
  /\ sent' = << >>
  /\ p_ret' = [op |-> "get_event", events |-> msgs, before |-> InboundState]
  /\ UNCHANGED <<winner, game_start_time, now, running, locks, p_board,
                 p_block, local_role, connected, my_block_sequence,
                 opponent_block_sequence, block_index, _sync_counter>>

InboundNext ==
  \/ \E m \in InboundPayloads : receive_events(<< m >>)
  \/ _handle_input_online({})
  \/ _update_online(FrameDt, OnlineHorizon)
  \/ _sync_state

SpecInbound == DisconnectInit /\ [][InboundNext]_vars

\* ------------------------------------------------- Board, called directly

\* The BattleGame variables while only a Board is exercised.
BattleIdle ==
  /\ players = << BattlePlayer(1, NewBoard(GridWidth, GridHeight)),
                  BattlePlayer(2, NewBoard(GridWidth, GridHeight)) >>
  /\ state = PLAYING
  /\ winner = 0
  /\ time_remaining = BATTLE_DURATION
  /\ game_start_time = 0
  /\ now = 0
  /\ running = TRUE
  /\ obs = NoLocks
  /\ locks = <<0, 0>>

\* Every grid of ProbeWidth x ProbeHeight cells, empty or gray.
ProbeBoards ==
  { [width |-> ProbeWidth, height |-> ProbeHeight, grid |-> g] :
      g \in [1..ProbeHeight -> [1..ProbeWidth -> {None, COLOR_GRAY}]] }

Filled(board) ==
  Cardinality({ c \in (1..board.height) \X (1..board.width) :
                  board.grid[c[1]][c[2]] # None })

\* Blocks of every type and rotation, from left of and above the board to
\* its last column and row.
ProbeBlocks ==
  { b \in [type : PieceTypes, x : -2..(ProbeWidth - 1),
           y : -3..(ProbeHeight - 1), rotation : 0..3] :
      b.rotation < Len(TETROMINOES[b.type].shape) }

BoardInit ==
  /\ BattleIdle
  /\ OnlineIdle
  /\ pc = "board"
  /\ p_ret = NoCall
  /\ p_board \in ProbeBoards
  /\ \/ p_block = NoBlock
     \/ /\ Filled(p_board) <= ProbeMaxFilled
        /\ p_block \in ProbeBlocks

\* board.clear_lines()
call_clear_lines ==
  /\ pc = "board" /\ p_block = NoBlock
  /\ p_board' = clear_lines(p_board).board
  /\ p_ret' = [op |-> "clear_lines", before |-> p_board,
               ret |-> clear_lines(p_board).lines_cleared]
  /\ pc' = "returned"
  /\ UNCHANGED <<players, state, winner, time_remaining, game_start_time,
                 now, running, obs, locks, p_block, online_vars>>

\* board.is_valid_position(block)
call_is_valid_position ==
  /\ pc = "board" /\ p_block # NoBlock
  /\ p_ret' = [op |-> "is_valid_position",
               ret |-> is_valid_position(p_board, p_block)]
  /\ pc' = "returned"
  /\ UNCHANGED <<players, state, winner, time_remaining, game_start_time,
                 now, running, obs, locks, p_board, p_block, online_vars>>

BoardNext == call_clear_lines \/ call_is_valid_position

SpecBoard == BoardInit /\ [][BoardNext]_vars

\* ------------------------------------------------ Block rotation, called
\* directly: a block of any catalog type in any of its rotation states, and
\* a bounded series of rotate_cw() / rotate_ccw() calls on it.

RotateBlocks ==
  { b \in [type : PieceTypes, x : {0, 3}, y : {0, 5}, rotation : 0..3] :
      b.rotation < Len(TETROMINOES[b.type].shape) }

RotateInit ==
  /\ BattleIdle
  /\ OnlineIdle
  /\ pc = "rotate"
  /\ p_board = NewBoard(1, 1)
  /\ p_block \in RotateBlocks
  /\ p_ret = [op |-> "rotate", calls |-> << >>, trail |-> << >>]

\* block.rotate_cw()
call_rotate_cw ==
  /\ pc = "rotate" /\ Len(p_ret.calls) < MaxRotations
  /\ p_block' = rotate_cw(p_block)
  /\ p_ret' = [p_ret EXCEPT !.calls = Append(@, "cw"),
                            !.trail = Append(@, p_block)]
  /\ UNCHANGED <<players, state, winner, time_remaining, game_start_time,
                 now, running, pc, obs, locks, p_board, online_vars>>

\* block.rotate_ccw()
call_rotate_ccw ==
  /\ pc = "rotate" /\ Len(p_ret.calls) < MaxRotations
  /\ p_block' = rotate_ccw(p_block)
  /\ p_ret' = [p_ret EXCEPT !.calls = Append(@, "ccw"),
                            !.trail = Append(@, p_block)]
  /\ UNCHANGED <<players, state, winner, time_remaining, game_start_time,
                 now, running, pc, obs, locks, p_board, online_vars>>

RotateNext ==
  \/ call_rotate_cw
  \/ call_rotate_ccw

SpecRotate == RotateInit /\ [][RotateNext]_vars

\* ----------------------------------------- rotation requests, called
\* directly on a board and a current piece in a valid position.

\* GameEnhanced.rotate_block: the kicks tried after the rotation in place.
wall_kicks == << <<1, 0>>, <<-1, 0>>, <<2, 0>>, <<-2, 0>>, <<0, -1>> >>

RECURSIVE WallKickFrom(_, _, _, _)
WallKickFrom(board, original, rotated, i) ==
  IF i > Len(wall_kicks) THEN [block |-> original, ret |-> "False"]
  ELSE IF is_valid_position(board, Kicked(original, rotated, wall_kicks[i]))
       THEN [block |-> Kicked(original, rotated, wall_kicks[i]),
             ret |-> "True"]
       ELSE WallKickFrom(board, original, rotated, i + 1)

\* GameEnhanced.rotate_block. With the ghost-mode effect active the method
\* calls self.board.is_within_bounds, which Board does not define: the call
\* raises AttributeError after the rotation index was changed.
rotate_block(board, block, clockwise, ghost) ==
  IF block = NoBlock THEN [block |-> block, ret |-> "False"]
  ELSE IF ghost
       THEN [block |-> IF clockwise THEN rotate_cw(block)
                       ELSE rotate_ccw(block),
             ret |-> "AttributeError"]
       ELSE IF is_valid_position(board, IF clockwise THEN rotate_cw(block)
                                        ELSE rotate_ccw(block))
            THEN [block |-> IF clockwise THEN rotate_cw(block)
                            ELSE rotate_ccw(block),
                  ret |-> "True"]
            ELSE WallKickFrom(board, block,
                              IF clockwise THEN rotate_cw(block)
                              ELSE rotate_ccw(block), 1)

KickInit ==
  /\ BattleIdle
  /\ OnlineIdle
  /\ pc = "kick"
  /\ p_ret = NoCall
  /\ p_board \in ProbeBoards
  /\ Filled(p_board) <= ProbeMaxFilled
  /\ p_block \in ProbeBlocks
  /\ is_valid_position(p_board, p_block)

\* battle_game._rotate_block(player, clockwise) for a player with this board
\* and current piece.
call__rotate_block(clockwise) ==
  /\ pc = "kick"
  /\ p_block' = _rotate_block([BattlePlayer(1, p_board) EXCEPT
                                 !.current_block = p_block],
                              clockwise).current_block
  /\ p_ret' = [op |-> "_rotate_block", clockwise |-> clockwise,
               before |-> p_block, ret |-> "None"]
  /\ pc' = "returned"
  /\ UNCHANGED <<players, state, winner, time_remaining, game_start_time,
                 now, running, obs, locks, p_board, online_vars>>

\* game.rotate_block(clockwise), with or without the ghost-mode effect.
call_rotate_block(clockwise, ghost) ==
  /\ pc = "kick"
  /\ p_block' = rotate_block(p_board, p_block, clockwise, ghost).block
  /\ p_ret' = [op |-> "rotate_block", clockwise |-> clockwise,
               before |-> p_block,
               ret |-> rotate_block(p_board, p_block, clockwise, ghost).ret]
  /\ pc' = "returned"
  /\ UNCHANGED <<players, state, winner, time_remaining, game_start_time,
                 now, running, obs, locks, p_board, online_vars>>

KickNext ==
  \/ \E clockwise \in BOOLEAN : call__rotate_block(clockwise)
  \/ \E clockwise \in BOOLEAN, ghost \in BOOLEAN :
       call_rotate_block(clockwise, ghost)

SpecKick == KickInit /\ [][KickNext]_vars

\* ------------------------------------- the score, lines and level of a
\* lock, called directly: a series of locks of one controller, each clearing
\* 0..4 lines.

\* constants.py SCORE_MULTIPLIERS (0.8, 1.0, 2.0), in tenths.
SCORE_MULTIPLIERS == [casual |-> 8, classic |-> 10, crazy |-> 20]

\* A lock_block that multiplies by the level reached with this clear.
lock_block_scored_NewLevel(g, lines) ==
  IF lines > 0
  THEN [g EXCEPT
          !.lines_cleared = @ + lines,
          !.score = @ + (line_scores(IF lines < 4 THEN lines ELSE 4)
                           * ((g.lines_cleared + lines) \div LINES_PER_LEVEL + 1)
                           * g.multiplier) \div 10,
          !.level = IF (g.lines_cleared + lines) \div LINES_PER_LEVEL + 1 > @
                    THEN (g.lines_cleared + lines) \div LINES_PER_LEVEL + 1
                    ELSE @]
  ELSE g

\* GameEnhanced.lock_block, "if lines > 0": lines_cleared, the score
\* int(line_score * level * multiplier), then the level.
lock_block_scored(g, lines) ==
  IF lines > 0
  THEN [g EXCEPT
          !.lines_cleared = @ + lines,
          !.score = @ + (line_scores(IF lines < 4 THEN lines ELSE 4)
                           * g.level * g.multiplier) \div 10,
          !.level = IF (g.lines_cleared + lines) \div LINES_PER_LEVEL + 1 > @
                    THEN (g.lines_cleared + lines) \div LINES_PER_LEVEL + 1
                    ELSE @]
  ELSE g

\* MobileOnlineBattleGame._lock_block: lines, score_table.get(k, 0) * level,
\* then level = lines // 10 + 1.
mobile_lock_scored(s, lines_cleared) ==
  [s EXCEPT
     !.lines = @ + lines_cleared,
     !.score = @ + (IF lines_cleared \in 1..4 THEN line_scores(lines_cleared)
                    ELSE 0) * s.level,
     !.level = (s.lines + lines_cleared) \div 10 + 1]

ScoreInit ==
  /\ BattleIdle
  /\ OnlineIdle
  /\ pc = "score"
  /\ p_board = NewBoard(GridWidth, GridHeight)
  /\ p_block = NoBlock
  /\ \E card \in
          { BattlePlayer(1, NewBoard(GridWidth, GridHeight)),
            [score |-> 0, lines |-> 0, level |-> 1] }
          \cup { [score |-> 0, level |-> 1, lines_cleared |-> 0,
                  multiplier |-> SCORE_MULTIPLIERS[mode]] :
                   mode \in DOMAIN SCORE_MULTIPLIERS } :
       p_ret = [op |-> "score", card |-> card, locked |-> FALSE,
                before |-> card, k |-> 0]

ScoreStep(card, k) ==
  /\ p_ret' = [op |-> "score", card |-> card, locked |-> TRUE,
               before |-> p_ret.card, k |-> k]
  /\ UNCHANGED <<players, state, winner, time_remaining, game_start_time,
                 now, running, pc, obs, locks, p_board, p_block, online_vars>>

\* BattleGame._lock_block on a board where the lock clears k lines.
call_LockScored(k) ==
  /\ pc = "score"
  /\ "player_id" \in DOMAIN p_ret.card
  /\ p_ret.card.lines < MaxLines
  /\ ScoreStep(LockScored(p_ret.card,
                          [board |-> p_ret.card.board, lines_cleared |-> k]),
               k)

\* GameEnhanced.lock_block on a board where the lock clears k lines.
call_lock_block_scored(k) ==
  /\ pc = "score"
  /\ "multiplier" \in DOMAIN p_ret.card
  /\ p_ret.card.lines_cleared < MaxLines
  /\ ScoreStep(lock_block_scored(p_ret.card, k), k)

\* MobileOnlineBattleGame._lock_block on a board where the lock clears k
\* lines.
call_mobile_lock_scored(k) ==
  /\ pc = "score"
  /\ DOMAIN p_ret.card = {"score", "lines", "level"}
  /\ p_ret.card.lines < MaxLines
  /\ ScoreStep(mobile_lock_scored(p_ret.card, k), k)

ScoreNext ==
  \/ \E k \in 0..4 : call_LockScored(k)
  \/ \E k \in 0..4 : call_lock_block_scored(k)
  \/ \E k \in 0..4 : call_mobile_lock_scored(k)

SpecScore == ScoreInit /\ [][ScoreNext]_vars

\* ------------------------------------------ _add_garbage_lines, called
\* directly on a board whose rows are empty, partly filled or nearly full.

\* MobileOnlineBattleGame._add_garbage_lines: count times, every row moved
\* up by one and a row of (128, 128, 128) with one gap put at the bottom.
RECURSIVE mobile_add_garbage_lines(_, _, _, _)
mobile_add_garbage_lines(board, count, gaps, i) ==
  IF i > count THEN board
  ELSE mobile_add_garbage_lines(
         [board EXCEPT !.grid =
            [y \in 1..board.height |->
               IF y < board.height THEN board.grid[y + 1]
               ELSE [x \in 1..board.width |->
                       IF x - 1 = gaps[i] THEN None ELSE "GRAY_128"]]],
         count, gaps, i + 1)

GarbageProbeRows ==
  { EmptyRow(ProbeWidth),
    [x \in 1..ProbeWidth |-> IF x = 1 THEN "CYAN" ELSE None],
    [x \in 1..ProbeWidth |-> IF x = ProbeWidth THEN "RED" ELSE None],
    [x \in 1..ProbeWidth |-> IF x = 2 THEN None ELSE COLOR_GRAY] }

GarbageInit ==
  /\ BattleIdle
  /\ OnlineIdle
  /\ pc = "garbage"
  /\ p_block = NoBlock
  /\ p_ret = NoCall
  /\ \E g \in [1..ProbeHeight -> GarbageProbeRows] :
       p_board = [width |-> ProbeWidth, height |-> ProbeHeight, grid |-> g]

\* battle_game._add_garbage_lines(player, count) with the gaps drawn.
call__add_garbage_lines(count, gaps) ==
  /\ pc = "garbage"
  /\ p_board' = _add_garbage_lines(p_board, count, gaps)
  /\ p_ret' = [op |-> "_add_garbage_lines", count |-> count,
               before |-> p_board]
  /\ pc' = "returned"
  /\ UNCHANGED <<players, state, winner, time_remaining, game_start_time,
                 now, running, obs, locks, p_block, online_vars>>

\* mobile_online_battle._add_garbage_lines(count) with the gaps drawn.
call_mobile_add_garbage_lines(count, gaps) ==
  /\ pc = "garbage"
  /\ p_board' = mobile_add_garbage_lines(p_board, count, gaps, 1)
  /\ p_ret' = [op |-> "mobile_add_garbage_lines", count |-> count,
               before |-> p_board]
  /\ pc' = "returned"
  /\ UNCHANGED <<players, state, winner, time_remaining, game_start_time,
                 now, running, obs, locks, p_block, online_vars>>

GarbageNext ==
  \/ \E count \in 1..ProbeHeight :
       \E gaps \in [1..count -> 0..(ProbeWidth - 1)] :
         call__add_garbage_lines(count, gaps)
  \/ \E count \in 1..ProbeHeight :
       \E gaps \in [1..count -> 0..(ProbeWidth - 1)] :
         call_mobile_add_garbage_lines(count, gaps)

SpecGarbage == GarbageInit /\ [][GarbageNext]_vars

\* --------------------------------------- send_state to OPPONENT_STATE

\* The sender's side at _sync_state: rows of its grid, its current piece,
\* its score and lines.
TransferRows ==
  { EmptyRow(GridWidth),
    [x \in 1..GridWidth |-> IF x = 1 THEN None ELSE COLOR_GRAY],
    [x \in 1..GridWidth |->
       IF x % 2 = 0 THEN ColorOf(create_tetromino("I"))
       ELSE ColorOf(create_tetromino("O"))] }

TransferBoards ==
  { [NewBoard(GridWidth, GridHeight)
       EXCEPT !.grid[GridHeight - 1] = upper, !.grid[GridHeight] = lower] :
      upper \in TransferRows, lower \in TransferRows }

\* The pieces stand in the two top rows, clear of the occupied rows.
TransferBlocks ==
  { NoBlock,
    [create_tetromino("I") EXCEPT !.x = 0, !.y = 0],
    [create_tetromino("O") EXCEPT !.x = 0, !.y = 0] }

TransferStats ==
  { [op |-> "send_state", score |-> 0, lines |-> 0],
    [op |-> "send_state", score |-> 40, lines |-> 0],
    [op |-> "send_state", score |-> 300, lines |-> 2] }

\* The sending player as the peer's _sync_state reads it.
TransferSender(board, block, stats) ==
  [BattlePlayer(1, board) EXCEPT !.current_block = block,
                                 !.score = stats.score,
                                 !.lines = stats.lines]

\* The receiver after MATCH_START; nothing has been sent yet.
TransferInit ==
  /\ SequenceInit
  /\ \A i \in 1..LongSeqLen : my_block_sequence[i] = "O"

\* The peer's NetworkManager.send_state(grid, score, lines, piece): the
\* payload it serialises is kept in sent, the peer's state in p_board,
\* p_block and p_ret.
call_send_state(board, block, stats) ==
  /\ pc \in {"network", "applied"}
  /\ pc' = IF pc = "network" THEN "sent" ELSE "sent again"
  /\ p_board' = board
  /\ p_block' = block
  /\ p_ret' = stats
  /\ sent' = << StateMessage(TransferSender(board, block, stats)) >>
  /\ UNCHANGED <<players, state, winner, time_remaining, game_start_time,
                 now, running, obs, locks, local_role, connected,
                 game_result, server_time_remaining, opponent_disconnected,
                 my_block_sequence, opponent_block_sequence, block_index,
                 _sync_counter>>

\* The receiver's _handle_opponent_state(data) on that payload.
call__handle_opponent_state ==
  /\ pc \in {"sent", "sent again"}
  /\ pc' = IF pc = "sent" THEN "applied" ELSE "returned"
  /\ players' = [players EXCEPT
                   ![Other(local_role)] = _handle_opponent_state(@, sent[1])]
  /\ UNCHANGED <<state, winner, time_remaining, game_start_time, now,
                 running, obs, locks, probe_vars, local_role, connected,
                 game_result, server_time_remaining, opponent_disconnected,
                 my_block_sequence, opponent_block_sequence, block_index,
                 _sync_counter, sent>>

TransferNext ==
  \/ \E board \in TransferBoards, block \in TransferBlocks,
        stats \in TransferStats : call_send_state(board, block, stats)
  \/ call__handle_opponent_state

SpecTransfer == TransferInit /\ [][TransferNext]_vars

\* ------------------------------------- the two power-up inventories, called
\* directly: a PowerUpManager (GameEnhanced) or a BattlePlayer, to which
\* power-ups are added and from which they are used while time passes.

\* The time between two PowerUpManager.update calls (ms), and the time up to
\* which they are followed.
EffectDt == 2500
EffectHorizon == 7500
\* The number of effect records up to which use_powerup calls are followed.
MaxEffects == 2

PowerUpType ==
  {"bomb", "magnet", "time_freeze", "gravity_reverse", "line_eraser",
   "ghost_mode"}

\* powerup.py POWERUP_DEFINITIONS[type].duration (ms)
POWERUP_DEFINITIONS(powerup_type) ==
  CASE powerup_type = "time_freeze" -> 5000
    [] powerup_type = "gravity_reverse" -> 8000
    [] OTHER -> 0

\* PowerUpManager.__init__
PowerUpManager ==
  [max_inventory |-> 2, inventory |-> << >>, active_effects |-> << >>,
   ghost_mode_blocks_remaining |-> 0]

\* PowerUp(type, duration) as add_powerup builds it.
PowerUp(powerup_type) ==
  [type |-> powerup_type, duration |-> POWERUP_DEFINITIONS(powerup_type),
   is_active |-> FALSE, activation_time |-> 0]

\* The None of an Optional[PowerUp].
NoPowerUp ==
  [type |-> None, duration |-> 0, is_active |-> FALSE, activation_time |-> 0]

\* PowerUp.is_expired
is_expired(effect, current_time) ==
  IF effect.duration = 0 THEN TRUE
  ELSE current_time - effect.activation_time >= effect.duration

\* An add_powerup that refuses only above max_inventory.
PowerUpManager_add_powerup_AboveMax(pm, powerup_type) ==
  IF Len(pm.inventory) > pm.max_inventory
  THEN [pm |-> pm, ret |-> FALSE]
  ELSE [pm |-> [pm EXCEPT !.inventory = Append(@, PowerUp(powerup_type))],
        ret |-> TRUE]

\* PowerUpManager.add_powerup
PowerUpManager_add_powerup(pm, powerup_type) ==
  IF Len(pm.inventory) >= pm.max_inventory
  THEN [pm |-> pm, ret |-> FALSE]
  ELSE [pm |-> [pm EXCEPT !.inventory = Append(@, PowerUp(powerup_type))],
        ret |-> TRUE]

\* PowerUp.activate
activate(powerup, current_time) ==
  [powerup EXCEPT !.is_active = TRUE, !.activation_time = current_time]

\* PowerUpManager.use_powerup: pop(0), activate, the ghost-mode counter, and
\* the append to active_effects when the power-up has a duration.
PowerUpManager_use_powerup(pm, current_time) ==
  IF Len(pm.inventory) = 0
  THEN [pm |-> pm, ret |-> NoPowerUp]
  ELSE LET powerup == activate(Head(pm.inventory), current_time)
       IN [pm |-> [pm EXCEPT
                     !.inventory = Tail(@),
                     !.ghost_mode_blocks_remaining =
                        IF powerup.type = "ghost_mode" THEN 3 ELSE @,
                     !.active_effects =
                        IF powerup.duration > 0 THEN Append(@, powerup)
                        ELSE @],
           ret |-> powerup]

\* PowerUpManager.update: the effects that have not expired are kept.
PowerUpManager_update(pm, current_time) ==
  [pm EXCEPT !.active_effects =
     SelectSeq(@, LAMBDA effect : ~is_expired(effect, current_time))]

\* PowerUpManager.is_effect_active
is_effect_active(pm, powerup_type) ==
  IF powerup_type = "ghost_mode" THEN pm.ghost_mode_blocks_remaining > 0
  ELSE \E i \in 1..Len(pm.active_effects) :
         /\ pm.active_effects[i].type = powerup_type
         /\ pm.active_effects[i].is_active

\* A decrement that does not look at the counter.
decrement_ghost_mode_Unguarded(pm) ==
  [pm EXCEPT !.ghost_mode_blocks_remaining = @ - 1]

\* PowerUpManager.decrement_ghost_mode
decrement_ghost_mode(pm) ==
  IF pm.ghost_mode_blocks_remaining > 0
  THEN [pm EXCEPT !.ghost_mode_blocks_remaining = @ - 1]
  ELSE pm

InventoryInit ==
  /\ BattleIdle
  /\ OnlineIdle
  /\ pc = "inventory"
  /\ p_board = NewBoard(GridWidth, GridHeight)
  /\ p_block = NoBlock
  /\ \E holder \in { PowerUpManager,
                     BattlePlayer(1, NewBoard(GridWidth, GridHeight)) } :
       p_ret = [op |-> "__init__", holder |-> holder, before |-> holder,
                arg |-> None, ret |-> None]

InventoryStep(op, holder, arg, ret) ==
  /\ p_ret' = [op |-> op, holder |-> holder, before |-> p_ret.holder,
               arg |-> arg, ret |-> ret]
  /\ UNCHANGED <<players, state, winner, time_remaining, game_start_time,
                 running, pc, obs, locks, p_board, p_block, online_vars>>

\* powerup_manager.add_powerup(powerup_type), as GameEnhanced.lock_block calls
\* it for a power-up block.
call_PowerUpManager_add_powerup(powerup_type) ==
  /\ pc = "inventory"
  /\ "inventory" \in DOMAIN p_ret.holder
  /\ InventoryStep("add_powerup",
                   PowerUpManager_add_powerup(p_ret.holder, powerup_type).pm,
                   powerup_type,
                   PowerUpManager_add_powerup(p_ret.holder, powerup_type).ret)
  /\ now' = now

\* powerup_manager.use_powerup(), as GameEnhanced.use_powerup calls it.
call_PowerUpManager_use_powerup ==
  /\ pc = "inventory"
  /\ "inventory" \in DOMAIN p_ret.holder
  /\ Len(p_ret.holder.active_effects) < MaxEffects
  /\ InventoryStep("use_powerup",
                   PowerUpManager_use_powerup(p_ret.holder, now).pm,
                   None,
                   PowerUpManager_use_powerup(p_ret.holder, now).ret)
  /\ now' = now

\* powerup_manager.update(dt), EffectDt after the call before it.
call_PowerUpManager_update ==
  /\ pc = "inventory"
  /\ "inventory" \in DOMAIN p_ret.holder
  /\ now < EffectHorizon
  /\ now' = now + EffectDt
  /\ InventoryStep("update",
                   PowerUpManager_update(p_ret.holder, now + EffectDt),
                   EffectDt, None)

\* GameEnhanced.lock_block, "self.powerup_manager.decrement_ghost_mode()":
\* the one statement of lock_block that touches the manager's counter.
call_lock_block_ghost ==
  /\ pc = "inventory"
  /\ "inventory" \in DOMAIN p_ret.holder
  /\ InventoryStep("lock_block", decrement_ghost_mode(p_ret.holder),
                   None, None)
  /\ now' = now

\* player.add_powerup(powerup); the flag returned is len(powerups) < 2 as
\* read before the append.
call_add_powerup(powerup) ==
  /\ pc = "inventory"
  /\ "powerups" \in DOMAIN p_ret.holder
  /\ InventoryStep("add_powerup", add_powerup(p_ret.holder, powerup),
                   powerup, Len(p_ret.holder.powerups) < 2)
  /\ now' = now

\* player.use_powerup()
call_use_powerup ==
  /\ pc = "inventory"
  /\ "powerups" \in DOMAIN p_ret.holder
  /\ InventoryStep("use_powerup", use_powerup(p_ret.holder).player,
                   None, use_powerup(p_ret.holder).powerup)
  /\ now' = now

InventoryNext ==
  \/ \E powerup_type \in PowerUpType :
       call_PowerUpManager_add_powerup(powerup_type)
  \/ call_PowerUpManager_use_powerup
  \/ call_PowerUpManager_update
  \/ call_lock_block_ghost
  \/ \E powerup \in BattlePowerUpType : call_add_powerup(powerup)
  \/ call_use_powerup

SpecInventory == InventoryInit /\ [][InventoryNext]_vars

\* ------------------------------------------- server_simple.py: the
\* matchmaking handler, one asyncio task per connection.  A task runs
\* without interruption from one await to the next; every await is a point
\* at which any other task may run.

\* The connections followed, and the messages each client sends to be
\* relayed.
MaxConnections == 3
MaxRelayed == 1

Connections == 1..MaxConnections

\* waiting_player = None, no handler started, nothing sent.
ServerStart ==
  [op |-> "server",
   waiting_player |-> 0,
   task |-> [c \in Connections |-> "unconnected"],
   opponent_ws |-> [c \in Connections |-> 0],
   game_id |-> [c \in Connections |-> 0],
   uuids |-> 0,
   closed |-> [c \in Connections |-> FALSE],
   received |-> [c \in Connections |-> << >>],
   outgoing |-> [c \in Connections |-> 0],
   written |-> [c \in Connections |-> 0],
   relays |-> [c \in Connections |-> {}]]

ServerInit ==
  /\ BattleIdle
  /\ OnlineIdle
  /\ pc = "server"
  /\ p_board = NewBoard(GridWidth, GridHeight)
  /\ p_block = NoBlock
  /\ p_ret = ServerStart

ServerStep(s) ==
  /\ pc = "server"
  /\ p_ret' = s
  /\ UNCHANGED <<players, state, winner, time_remaining, game_start_time,
                 now, running, pc, obs, locks, p_board, p_block, online_vars>>

\* websocket.send(message): ConnectionClosed when the connection is closed,
\* otherwise the message is handed to the client.
Send(s, c, message) ==
  IF s.closed[c] THEN [s |-> s, raised |-> TRUE]
  ELSE [s |-> [s EXCEPT !.received[c] = Append(@, message)],
        raised |-> FALSE]

\* websockets.serve starts handler(websocket) for a new connection.
connect(c) ==
  /\ p_ret.task[c] = "unconnected"
  /\ ServerStep([p_ret EXCEPT !.task[c] = "handler"])

\* A client closes its connection, or loses it.
close(c) ==
  /\ p_ret.task[c] # "unconnected"
  /\ ~p_ret.closed[c]
  /\ ServerStep([p_ret EXCEPT !.closed[c] = TRUE])

\* A handler that leaves the waiting connection in the slot.
handler_SlotKept(c) ==
  /\ p_ret.task[c] = "handler"
  /\ ServerStep(
       IF p_ret.waiting_player = 0
       THEN [p_ret EXCEPT !.waiting_player = c, !.task[c] = "send WAITING"]
       ELSE [p_ret EXCEPT
               !.opponent_ws[c] = p_ret.waiting_player,
               !.uuids = @ + 1,
               !.game_id[c] = p_ret.uuids + 1,
               !.task[c] = "send role 1"])

\* handler, from its start to the first await: the waiting slot is read and
\* either taken (then WAITING is to be sent) or emptied into opponent_ws
\* (then a game_id is drawn and MATCH_START is to be sent to the waiting
\* connection).
handler(c) ==
  /\ p_ret.task[c] = "handler"
  /\ ServerStep(
       IF p_ret.waiting_player = 0
       THEN [p_ret EXCEPT !.waiting_player = c, !.task[c] = "send WAITING"]
       ELSE [p_ret EXCEPT
               !.opponent_ws[c] = p_ret.waiting_player,
               !.waiting_player = 0,
               !.uuids = @ + 1,
               !.game_id[c] = p_ret.uuids + 1,
               !.task[c] = "send role 1"])

\* await websocket.send(WAITING), then await websocket.wait_closed(); an
\* exception goes to the except clause and on to finally.
handler_send_waiting(c) ==
  /\ p_ret.task[c] = "send WAITING"
  /\ ServerStep(
       LET r == Send(p_ret, c, [type |-> "WAITING"])
       IN [r.s EXCEPT !.task[c] = IF r.raised THEN "finally"
                                  ELSE "wait_closed"])

\* wait_closed() returns.
handler_wait_closed(c) ==
  /\ p_ret.task[c] = "wait_closed"
  /\ p_ret.closed[c]
  /\ ServerStep([p_ret EXCEPT !.task[c] = "finally"])

\* await opponent_ws.send(MATCH_START, role 1)
handler_send_role1(c) ==
  /\ p_ret.task[c] = "send role 1"
  /\ ServerStep(
       LET r == Send(p_ret, p_ret.opponent_ws[c],
                     [type |-> "MATCH_START", game_id |-> p_ret.game_id[c],
                      role |-> 1])
       IN [r.s EXCEPT !.task[c] = IF r.raised THEN "finally"
                                  ELSE "send role 2"])

\* await websocket.send(MATCH_START, role 2), then the two relay loops are
\* started by asyncio.gather.
handler_send_role2(c) ==
  /\ p_ret.task[c] = "send role 2"
  /\ ServerStep(
       LET r == Send(p_ret, c,
                     [type |-> "MATCH_START", game_id |-> p_ret.game_id[c],
                      role |-> 2])
       IN IF r.raised THEN [r.s EXCEPT !.task[c] = "finally"]
          ELSE [r.s EXCEPT !.task[c] = "gather",
                           !.relays[c] = {c, p_ret.opponent_ws[c]}])

\* A client writes a message to its connection.
client_send(c) ==
  /\ p_ret.task[c] # "unconnected"
  /\ ~p_ret.closed[c]
  /\ p_ret.written[c] < MaxRelayed
  /\ ServerStep([p_ret EXCEPT !.outgoing[c] = @ + 1, !.written[c] = @ + 1])

\* The connection the relay loop of handler c reading from source writes to.
Target(c, source) == IF source = c THEN p_ret.opponent_ws[c] ELSE c

\* relay_messages(source, target), one message: it is sent on to target; a
\* closed target ends the loop (ConnectionClosed is caught).
relay_messages(c, source) ==
  /\ p_ret.task[c] = "gather"
  /\ source \in p_ret.relays[c]
  /\ p_ret.outgoing[source] > 0
  /\ ServerStep(
       LET r == Send([p_ret EXCEPT !.outgoing[source] = @ - 1],
                     Target(c, source), [type |-> "RELAYED", from |-> source])
       IN IF r.raised THEN [r.s EXCEPT !.relays[c] = @ \ {source}]
          ELSE r.s)

\* relay_messages(source, target): the source is closed and read to its
\* end, the loop is over.
relay_messages_end(c, source) ==
  /\ p_ret.task[c] = "gather"
  /\ source \in p_ret.relays[c]
  /\ p_ret.outgoing[source] = 0
  /\ p_ret.closed[source]
  /\ ServerStep([p_ret EXCEPT !.relays[c] = @ \ {source}])

\* asyncio.gather returns when both loops are over.
handler_gathered(c) ==
  /\ p_ret.task[c] = "gather"
  /\ p_ret.relays[c] = {}
  /\ ServerStep([p_ret EXCEPT !.task[c] = "finally"])

\* finally: the slot is cleared if it still holds this connection.
handler_finally(c) ==
  /\ p_ret.task[c] = "finally"
  /\ ServerStep([p_ret EXCEPT
                   !.waiting_player = IF @ = c THEN 0 ELSE @,
                   !.closed[c] = TRUE,
                   !.task[c] = "returned"])

ServerNext ==
  \E c \in Connections :
    \/ connect(c)
    \/ close(c)
    \/ handler(c)
    \/ handler_send_waiting(c)
    \/ handler_wait_closed(c)
    \/ handler_send_role1(c)
    \/ handler_send_role2(c)
    \/ client_send(c)
    \/ \E source \in Connections : relay_messages(c, source)
    \/ \E source \in Connections : relay_messages_end(c, source)
    \/ handler_gathered(c)
    \/ handler_finally(c)

SpecServer == ServerInit /\ [][ServerNext]_vars

\* ------------------------------------------------ GameEnhanced (game.py),
\* the single-player controller in GameMode.CLASSIC: no power-up blocks, an
\* empty PowerUpManager, score multiplier 1.0.  One frame of run() is
\* clock.tick, the queued events, handle_input and update; time.time() is
\* read as the frame's time by all three.

\* The board and the run followed: the frames up to EnhancedHorizon (ms)
\* and the pieces locked up to EnhancedLocks.
EnhancedWidth == 4
EnhancedHeight == 5
EnhancedHorizon == 1750
EnhancedLocks == 2

GAME_OVER_INPUT == "game_over_input"

\* spawn_new_block (and hold_current_block): x = board.width // 2 - 2, y = 0
AtSpawn(board, piece_type) ==
  [create_tetromino(piece_type) EXCEPT !.x = board.width \div 2 - 2, !.y = 0]

\* GameEnhanced.spawn_new_block with a next block: the next block becomes
\* the current one, drawn is the new next block; an invalid spawn position
\* is GAME_OVER.
spawn_new_block(g, drawn) ==
  [g EXCEPT
     !.current_block = AtSpawn(g.board, g.next_block),
     !.next_block = drawn,
     !.state = IF is_valid_position(g.board, AtSpawn(g.board, g.next_block))
               THEN @ ELSE GAME_OVER,
     !.can_hold = TRUE,
     !.is_on_ground = FALSE,
     !.lock_timer = 0]

\* GameEnhanced.__init__ and restart(): the first block is spawned without a
\* next block, then the next block is drawn.  online_mode is
\* leaderboard_manager.online_mode.
NewGame(board, first, drawn, online_mode, high_score, current_time) ==
  [state |-> PLAYING, board |-> board, score |-> 0,
   high_score |-> high_score, level |-> 1, lines_cleared |-> 0,
   multiplier |-> SCORE_MULTIPLIERS.classic,
   current_block |-> AtSpawn(board, first), next_block |-> drawn,
   can_hold |-> TRUE, fall_speed |-> INITIAL_FALL_SPEED,
   last_fall_time |-> current_time, lock_timer |-> 0,
   is_on_ground |-> FALSE, online_mode |-> online_mode]

\* GameEnhanced._check_ground_after_move
_check_ground_after_move(g) ==
  IF g.is_on_ground
       /\ is_valid_position(g.board, [g.current_block EXCEPT !.y = @ + 1])
  THEN [g EXCEPT !.is_on_ground = FALSE, !.lock_timer = 0]
  ELSE g

\* GameEnhanced.move_block with no ghost mode.
move_block(g, dx, dy) ==
  LET moved == [g.current_block EXCEPT !.x = @ + dx, !.y = @ + dy]
  IN IF is_valid_position(g.board, moved)
     THEN [g |-> IF dx # 0
                 THEN _check_ground_after_move(
                        [g EXCEPT !.current_block = moved])
                 ELSE [g EXCEPT !.current_block = moved],
           ret |-> TRUE]
     ELSE [g |-> g, ret |-> FALSE]

\* lock_block, the level-up: fall_speed *= 0.9 up to level 5 and *= 0.85
\* above, in whole milliseconds.
LevelSpeed(g, scored) ==
  IF scored.level > g.level
  THEN IF scored.level <= 5 THEN (g.fall_speed * 9) \div 10
       ELSE (g.fall_speed * 85) \div 100
  ELSE g.fall_speed

\* lock_block from "Check game over" on: is_game_over(spawn_y=1), the state,
\* the high score; or the next spawn.
LockEnded(g, drawn) ==
  IF \E x \in 1..g.board.width : g.board.grid[2][x] # None
  THEN [g EXCEPT
          !.state = IF g.online_mode THEN GAME_OVER_INPUT ELSE GAME_OVER,
          !.high_score = IF g.score > @ THEN g.score ELSE @]
  ELSE spawn_new_block(g, drawn)

\* GameEnhanced.lock_block: place_block, clear_lines, the score and level,
\* then the game-over check or the spawn.
lock_block(g, drawn) ==
  LET placed == place_block(g.board, g.current_block)
      cleared == clear_lines(placed)
      scored == lock_block_scored(g, cleared.lines_cleared)
  IN LockEnded([scored EXCEPT !.board = cleared.board,
                              !.fall_speed = LevelSpeed(g, scored)],
               drawn)

\* hard_drop's loop "while self.move_block(0, 1): rows_dropped += 1".
RECURSIVE DropRows(_, _)
DropRows(g, rows_dropped) ==
  IF move_block(g, 0, 1).ret
  THEN DropRows(move_block(g, 0, 1).g, rows_dropped + 1)
  ELSE [g |-> g, rows_dropped |-> rows_dropped]

\* GameEnhanced.hard_drop: returns the rows dropped after lock_block.
hard_drop(g, drawn) ==
  [g |-> lock_block(DropRows(g, 0).g, drawn),
   rows_dropped |-> DropRows(g, 0).rows_dropped]

\* handle_event, KEYDOWN while PLAYING.  K_UP and K_z: rotate_block, then
\* "if self.is_on_ground: self.lock_timer = time.time()".  K_SPACE:
\* "rows = self.hard_drop(); self.score += rows * SCORE_HARD_DROP".
KeyDown(g, key, drawn, current_time) ==
  CASE key \in {"up", "z"} ->
         [g EXCEPT
            !.current_block =
               rotate_block(g.board, g.current_block, key = "up", FALSE).block,
            !.lock_timer = IF g.is_on_ground THEN current_time ELSE @]
    [] key = "space" ->
         [hard_drop(g, drawn).g EXCEPT
            !.score = @ + hard_drop(g, drawn).rows_dropped * SCORE_HARD_DROP]
    [] OTHER -> g

\* GameEnhanced.update from "Check if block is on ground" on, with no
\* effect active: is_on_ground, the gravity step, the lock delay.
Grounded(g) ==
  [g EXCEPT !.is_on_ground =
     ~is_valid_position(g.board, [g.current_block EXCEPT !.y = @ + 1])]

Gravity(g, current_time) ==
  IF current_time - g.last_fall_time >= g.fall_speed
  THEN [(IF move_block(g, 0, 1).ret
         THEN [move_block(g, 0, 1).g EXCEPT !.is_on_ground = FALSE]
         ELSE IF ~g.is_on_ground
              THEN [g EXCEPT !.is_on_ground = TRUE,
                             !.lock_timer = current_time]
              ELSE g)
          EXCEPT !.last_fall_time = current_time]
  ELSE g

LockDelay(g, drawn, current_time) ==
  IF g.is_on_ground
  THEN IF g.lock_timer = 0 THEN [g EXCEPT !.lock_timer = current_time]
       ELSE IF current_time - g.lock_timer >= LOCK_DELAY
            THEN lock_block(g, drawn)
            ELSE g
  ELSE g

\* What is kept next to the game for inspection: the locks so far, whether
\* the last step locked a piece and by which path, the rows a hard drop
\* travelled, since when the current piece has been unable to fall (-1: it
\* can fall) and, at a lock, for how long the locked piece had been so.
Watched(g, locked, via, rows) ==
  [op |-> "GameEnhanced",
   g |-> g,
   locks |-> p_ret.locks + (IF locked THEN 1 ELSE 0),
   locked |-> locked,
   via |-> via,
   rows_dropped |-> rows,
   rested |-> IF locked /\ p_ret.resting_since >= 0
              THEN now - p_ret.resting_since ELSE 0,
   resting_since |->
     IF is_valid_position(g.board, [g.current_block EXCEPT !.y = @ + 1])
     THEN -1
     ELSE IF locked \/ p_ret.resting_since < 0 THEN now
          ELSE p_ret.resting_since]

EnhancedStep(g, locked, via, rows) ==
  /\ p_ret' = Watched(g, locked, via, rows)
  /\ UNCHANGED <<players, state, winner, time_remaining, game_start_time,
                 running, obs, locks, p_board, p_block, online_vars>>

\* The first frame's time.time() is FrameDt: the clock never reads 0, the
\* value lock_timer holds while it is not running.
EnhancedInit ==
  /\ players = << BattlePlayer(1, NewBoard(GridWidth, GridHeight)),
                  BattlePlayer(2, NewBoard(GridWidth, GridHeight)) >>
  /\ state = PLAYING
  /\ winner = 0
  /\ time_remaining = BATTLE_DURATION
  /\ game_start_time = 0
  /\ now = FrameDt
  /\ running = TRUE
  /\ obs = NoLocks
  /\ locks = <<0, 0>>
  /\ OnlineIdle
  /\ pc = "events"
  /\ p_board = NewBoard(EnhancedWidth, EnhancedHeight)
  /\ p_block = NoBlock
  /\ \E first \in PieceDraws, drawn \in PieceDraws, online_mode \in BOOLEAN :
       p_ret = [op |-> "GameEnhanced",
                g |-> NewGame(NewBoard(EnhancedWidth, EnhancedHeight), first,
                              drawn, online_mode, 0, FrameDt),
                locks |-> 0, locked |-> FALSE, via |-> None,
                rows_dropped |-> 0, rested |-> 0, resting_since |-> -1]

\* handle_event(KEYDOWN key) while PLAYING.
GameEnhanced_handle_event(key) ==
  /\ pc = "events"
  /\ p_ret.g.state = PLAYING
  /\ key = "space" => p_ret.locks < EnhancedLocks
  /\ \E drawn \in PieceDraws :
       EnhancedStep(KeyDown(p_ret.g, key, drawn, now), key = "space",
                    IF key = "space" THEN "hard_drop" ELSE None,
                    IF key = "space"
                    THEN hard_drop(p_ret.g, drawn).rows_dropped ELSE 0)
  /\ UNCHANGED <<now, pc>>

\* handle_event(KEYDOWN K_RETURN) in GAME_OVER_INPUT with no name entered.
GameEnhanced_handle_event_return ==
  /\ pc = "events"
  /\ p_ret.g.state = GAME_OVER_INPUT
  /\ EnhancedStep([p_ret.g EXCEPT !.state = GAME_OVER], FALSE, None, 0)
  /\ UNCHANGED <<now, pc>>

\* handle_event(KEYDOWN K_r) in GAME_OVER: restart().
GameEnhanced_handle_event_restart ==
  /\ pc = "events"
  /\ p_ret.g.state = GAME_OVER
  /\ p_ret.locks < EnhancedLocks
  /\ \E first \in PieceDraws, drawn \in PieceDraws :
       EnhancedStep(
         [NewGame(NewBoard(EnhancedWidth, EnhancedHeight), first, drawn,
                  p_ret.g.online_mode, p_ret.g.high_score, 0)
            EXCEPT !.last_fall_time = p_ret.g.last_fall_time,
                   !.lock_timer = 0],
         FALSE, None, 0)
  /\ UNCHANGED <<now, pc>>

\* handle_input: the frames are FrameDt apart, longer than move_delay and
\* the soft drop's 0.05 s, so a held key acts in every frame.
HeldKeys(g, held, current_time) ==
  LET left == IF "left" \in held /\ move_block(g, -1, 0).ret
              THEN [move_block(g, -1, 0).g EXCEPT
                      !.lock_timer = IF move_block(g, -1, 0).g.is_on_ground
                                     THEN current_time ELSE @]
              ELSE g
  IN IF "down" \in held /\ move_block(left, 0, 1).ret
     THEN [move_block(left, 0, 1).g EXCEPT !.score = @ + SCORE_SOFT_DROP]
     ELSE left

GameEnhanced_handle_input(held) ==
  /\ pc = "events"
  /\ EnhancedStep(IF p_ret.g.state = PLAYING
                  THEN HeldKeys(p_ret.g, held, now) ELSE p_ret.g,
                  FALSE, None, 0)
  /\ pc' = "update"
  /\ now' = now

\* update(dt), then clock.tick of the next frame.
GameEnhanced_update(dt) ==
  /\ pc = "update"
  /\ now < EnhancedHorizon
  /\ p_ret.locks < EnhancedLocks
  /\ \E drawn \in PieceDraws :
       LET fallen == Gravity(Grounded(p_ret.g), now)
           due == fallen.is_on_ground /\ fallen.lock_timer # 0
                      /\ now - fallen.lock_timer >= LOCK_DELAY
       IN IF p_ret.g.state = PLAYING
          THEN EnhancedStep(LockDelay(fallen, drawn, now), due,
                            IF due THEN "lock_delay" ELSE None, 0)
          ELSE EnhancedStep(p_ret.g, FALSE, None, 0)
  /\ pc' = "events"
  /\ now' = now + dt

EnhancedNext ==
  \/ \E key \in {"up", "space"} : GameEnhanced_handle_event(key)
  \/ GameEnhanced_handle_event_return
  \/ GameEnhanced_handle_event_restart
  \/ \E held \in { {}, {"down"}, {"left"} } : GameEnhanced_handle_input(held)
  \/ GameEnhanced_update(FrameDt)

SpecEnhanced == EnhancedInit /\ [][EnhancedNext]_vars

\* ------------------------------------------------------------------ claims

NotFull(row) == \E x \in 1..Len(row) : row[x] = None

\* C1: Board.clear_lines removes exactly the rows that were full when it was
\* called, keeps the other rows in their order moved down, puts one empty
\* row at the top for each row removed and returns the number removed, for
\* any number of full rows from 0 to height; a board without a full row is
\* left as it was and 0 is returned.
C1_ClearLines ==
  p_ret.op = "clear_lines" =>
    LET kept == SelectSeq(p_ret.before.grid, NotFull)
        k == ProbeHeight - Len(kept)
    IN /\ p_ret.ret = k
       /\ p_board.width = ProbeWidth /\ p_board.height = ProbeHeight
       /\ p_board.grid =
            [i \in 1..k |-> [x \in 1..ProbeWidth |-> None]] \o kept
       /\ (k = 0 => p_board = p_ret.before)

\* Two full rows next to each other removed above a row that stays.
C1_Witness ==
  /\ p_ret.op = "clear_lines"
  /\ p_ret.ret = 2
  /\ ~NotFull(p_ret.before.grid[1]) /\ ~NotFull(p_ret.before.grid[2])
  /\ p_ret.before.grid[3] # [x \in 1..ProbeWidth |-> None]
  /\ p_board.grid[3] = p_ret.before.grid[3]

CellsOf(block) ==
  { get_cells(block)[i] : i \in 1..Len(get_cells(block)) }

\* C2: Board.is_valid_position returns False exactly when some cell of the
\* block has x outside [0, width), or y >= height, or y >= 0 and an occupied
\* grid cell; a cell with y < 0 is never tested for occupancy.
C2_ValidPosition ==
  p_ret.op = "is_valid_position" =>
    (p_ret.ret = FALSE
       <=> \E c \in CellsOf(p_block) :
             \/ c[1] < 0 \/ c[1] >= p_board.width
             \/ c[2] >= p_board.height
             \/ (c[2] >= 0 /\ p_board.grid[c[2] + 1][c[1] + 1] # None))

\* A block found valid with a cell above the board, in a column whose
\* bottom cell is occupied.
C2_Witness ==
  /\ p_ret.op = "is_valid_position"
  /\ p_ret.ret = TRUE
  /\ \E c \in CellsOf(p_block) :
       /\ c[2] = -1
       /\ p_board.grid[ProbeHeight][c[1] + 1] # None

\* C3: at the moment a hard drop locks the piece, the piece is in a valid
\* position and one row further down is not.
C3_HardDropLanded ==
  \A i \in 1..2 :
    (obs[i].locked /\ obs[i].via = "hard_drop")
      => (obs[i].valid /\ ~obs[i].can_fall)

\* The garbage table of the claim: 1 -> 0, 2 -> 1, 3 -> 2, 4 -> 4.
C4_Table(k) ==
  CASE k = 2 -> 1 [] k = 3 -> 2 [] k = 4 -> 4 [] OTHER -> 0

C4_GarbageRow(row) ==
  /\ Cardinality({x \in 1..Len(row) : row[x] = None}) = 1
  /\ \A x \in 1..Len(row) : row[x] \in {None, COLOR_GRAY}

C6_TopOutEndsGame ==
  [][(pc = "update" /\ state = PLAYING
        /\ (players[1].is_dead \/ players[2].is_dead))
       => state' = GAME_OVER]_vars

\* C7: when the game is over, the winner is the other player if exactly one
\* player is dead, otherwise the player with the higher score, and 0 on
\* equal scores.
C7_Winner ==
  state = GAME_OVER =>
    winner = (IF players[1].is_dead /\ ~players[2].is_dead THEN 2
              ELSE IF players[2].is_dead /\ ~players[1].is_dead THEN 1
              ELSE IF players[1].score > players[2].score THEN 1
              ELSE IF players[2].score > players[1].score THEN 2
              ELSE 0)

\* The match runs out with both players alive and player 2 ahead.
C7_Witness ==
  /\ state = GAME_OVER
  /\ ~players[1].is_dead /\ ~players[2].is_dead
  /\ players[2].score > players[1].score
  /\ winner = 2

\* C10: a piece locked by the lock delay cannot fall one row further.
C10_LockDelayGrounded ==
  \A i \in 1..2 :
    (obs[i].locked /\ obs[i].via = "lock_delay") => ~obs[i].can_fall

\* C5: in the online game the local player's grid changes only in a step in
\* which the local player's piece locks; garbage announced by GARBAGE
\* messages never enters the grid while the piece is falling.
C5_GarbageAfterLock ==
  [][players'[local_role].board.grid # players[local_role].board.grid
       => obs'[local_role].locked]_vars

\* C8: once the online game is over and game_result is set, game_result
\* does not change.
C8_ResultSetOnce ==
  [][(state = GAME_OVER /\ game_result # NoResult)
       => game_result' = game_result]_vars

\* C9: once the game is over, neither player's grid changes (short of a
\* restart).
C9_FrozenAfterGameOver ==
  [][(state = GAME_OVER /\ state' = GAME_OVER)
       => /\ players'[1].board.grid = players[1].board.grid
          /\ players'[2].board.grid = players[2].board.grid]_vars


\* C11: a successful horizontal move or rotation of a piece that is on the
\* ground (is_on_ground) leaves the player's lock timer at zero, also when
\* the piece still rests on a surface afterwards.
C11_MoveResetsLockTimer ==
  [][\A i \in 1..2 :
       (/\ players[i].is_on_ground
        /\ ~obs'[i].locked
        /\ players'[i].current_block.type = players[i].current_block.type
        /\ \/ players'[i].current_block.x # players[i].current_block.x
           \/ players'[i].current_block.rotation
                # players[i].current_block.rotation)
         => players'[i].lock_timer = 0]_vars

\* The part of C11 about rotations alone.
C11_RotationResetsLockTimer ==
  [][\A i \in 1..2 :
       (/\ players[i].is_on_ground
        /\ ~obs'[i].locked
        /\ players'[i].current_block.type = players[i].current_block.type
        /\ players'[i].current_block.rotation
             # players[i].current_block.rotation)
         => players'[i].lock_timer = 0]_vars


\* C12: while a player's hold is used up (can_hold is False) and the player
\* does not lock, the held, current and next piece types stay as they are
\* and hold stays used up; after a lock whose spawn succeeds hold is
\* available again.
C12_HoldOncePerLock ==
  [][\A i \in 1..2 :
       /\ (~players[i].can_hold /\ ~obs'[i].locked) =>
            /\ players'[i].hold_block = players[i].hold_block
            /\ players'[i].current_block.type = players[i].current_block.type
            /\ players'[i].next_block = players[i].next_block
            /\ ~players'[i].can_hold
       /\ (obs'[i].locked /\ ~players'[i].is_dead) => players'[i].can_hold
    ]_vars

\* Player 1 has used the hold after a lock.
C12_Witness ==
  /\ ~players[1].can_hold
  /\ players[1].hold_block # None
  /\ ~players[1].is_dead
  /\ locks[1] >= 1

\* The column a piece of a type is spawned at: centred by the width of its
\* first rotation state.
C13_SpawnColumn(type) ==
  (GridWidth - Len(TETROMINOES[type].shape[1][1])) \div 2

\* C13: a permitted hold (can_hold goes from True to False) with an empty
\* slot stores the current piece, makes the next piece current and draws a
\* new next piece; with an occupied slot it swaps current and held and
\* leaves the next piece; the piece that becomes current has rotation 0,
\* y = 0 and the spawn column.
C13_HoldEffect ==
  [][\A i \in 1..2 :
       (players[i].can_hold /\ ~players'[i].can_hold /\ ~obs'[i].locked) =>
         /\ players'[i].hold_block = players[i].current_block.type
         /\ IF players[i].hold_block = None
            THEN /\ players'[i].current_block.type = players[i].next_block
                 /\ players'[i].next_block \in PieceTypes
            ELSE /\ players'[i].current_block.type = players[i].hold_block
                 /\ players'[i].next_block = players[i].next_block
         /\ players'[i].current_block.rotation = 0
         /\ players'[i].current_block.y = 0
         /\ players'[i].current_block.x
              = C13_SpawnColumn(players'[i].current_block.type)
    ]_vars

\* Player 1 has swapped: the piece that came back is at the spawn position
\* and overlaps the stack, which only the swap allows for a live player.
C13_Witness ==
  /\ ~players[1].can_hold
  /\ ~players[1].is_dead
  /\ players[1].hold_block # None
  /\ players[1].current_block.y = 0
  /\ players[1].current_block.rotation = 0
  /\ ~is_valid_position(players[1].board, players[1].current_block)


\* The block after call number i of the rotation series.
C14_After(i) ==
  IF i = Len(p_ret.calls) THEN p_block ELSE p_ret.trail[i + 1]

\* C14: for every catalog shape, rotate_cw and rotate_ccw keep the rotation
\* index inside [0, number of rotation states); four clockwise rotations of
\* a 4-state shape give back the original rotation index and cell set; a
\* 1-state shape has the same cells after any rotation; rotate_cw followed
\* by rotate_ccw is the identity.
C14_Rotation ==
  pc = "rotate" =>
    /\ p_block.rotation \in 0..(Len(ShapeOf(p_block)) - 1)
    /\ (/\ Len(ShapeOf(p_block)) = 4
        /\ p_ret.calls = <<"cw", "cw", "cw", "cw">>)
         => /\ p_block.rotation = p_ret.trail[1].rotation
            /\ CellsOf(p_block) = CellsOf(p_ret.trail[1])
    /\ (Len(ShapeOf(p_block)) = 1 /\ p_ret.calls # << >>)
         => CellsOf(p_block) = CellsOf(p_ret.trail[1])
    /\ \A i \in 1..(Len(p_ret.calls) - 1) :
         (p_ret.calls[i] = "cw" /\ p_ret.calls[i + 1] = "ccw")
           => C14_After(i + 1) = p_ret.trail[i]

C14_Witness ==
  /\ pc = "rotate"
  /\ p_block.type = "T"
  /\ p_ret.calls = <<"ccw", "cw", "ccw", "cw">>
  /\ p_ret.trail[1].rotation = 0
  /\ p_ret.trail[2].rotation = 3
  /\ p_block.rotation = 0

\* The offsets a rotation request tries, in order: BattleGame's list starts
\* with (0, 0); GameEnhanced tests the rotation in place and then its list.
C15_KickList ==
  IF p_ret.op = "_rotate_block" THEN kicks ELSE << <<0, 0>> >> \o wall_kicks

C15_Rotated ==
  IF p_ret.clockwise THEN rotate_cw(p_ret.before) ELSE rotate_ccw(p_ret.before)

C15_Tried(i) == Kicked(p_ret.before, C15_Rotated, C15_KickList[i])

\* C15: a rotation request (BattleGame._rotate_block, GameEnhanced.rotate_block)
\* on a piece in a valid position either succeeds, leaving the piece in the
\* new rotation at the original position plus the first offset of the kick
\* list, in list order, that gives a valid position, or fails, leaving
\* rotation, x and y as before; the resulting position is valid.
C15_RotationRequest ==
  (pc = "returned" /\ p_ret.op \in {"_rotate_block", "rotate_block"}) =>
    /\ is_valid_position(p_board, p_block)
    /\ \/ \E i \in 1..Len(C15_KickList) :
            /\ p_block = C15_Tried(i)
            /\ is_valid_position(p_board, C15_Tried(i))
            /\ \A j \in 1..(i - 1) : ~is_valid_position(p_board, C15_Tried(j))
       \/ /\ p_block = p_ret.before
          /\ \A j \in 1..Len(C15_KickList) :
               ~is_valid_position(p_board, C15_Tried(j))

\* The same for the requests that return: every request but
\* GameEnhanced.rotate_block with the ghost-mode effect active.
C15_ReturningRequest ==
  (pc = "returned" /\ p_ret.op \in {"_rotate_block", "rotate_block"}
     /\ p_ret.ret = "AttributeError")
  \/ C15_RotationRequest

C16_Base ==
  << SCORE_SINGLE_LINE, SCORE_DOUBLE_LINE, SCORE_TRIPLE_LINE, SCORE_QUAD_LINE >>

C16_LinesOf(card) ==
  IF "multiplier" \in DOMAIN card THEN card.lines_cleared ELSE card.lines

\* C16: a lock that clears k lines (1 <= k <= 4) at level L adds exactly
\* base[k] * L to the score (times the mode's score multiplier, truncated,
\* in single-player), L being the level before any level-up caused by that
\* clear; base = 100, 300, 500, 800 is strictly increasing and base[4] >
\* 4 * base[1]; a lock that clears no line adds no line score.
C16_LineScore ==
  /\ C16_Base = <<100, 300, 500, 800>>
  /\ \A k \in 1..3 : C16_Base[k] < C16_Base[k + 1]
  /\ C16_Base[4] > 4 * C16_Base[1]
  /\ (pc = "score" /\ p_ret.locked) =>
       p_ret.card.score - p_ret.before.score =
         IF p_ret.k = 0 THEN 0
         ELSE IF "multiplier" \in DOMAIN p_ret.card
              THEN (C16_Base[p_ret.k] * p_ret.before.level
                      * p_ret.card.multiplier) \div 10
              ELSE C16_Base[p_ret.k] * p_ret.before.level

C16_Witness ==
  /\ pc = "score" /\ p_ret.locked
  /\ "multiplier" \in DOMAIN p_ret.card
  /\ p_ret.card.multiplier = SCORE_MULTIPLIERS.casual
  /\ p_ret.k = 4
  /\ p_ret.before.level = 2
  /\ p_ret.card.level = 3
  /\ p_ret.card.score - p_ret.before.score = 1280

\* C17: for every locally simulated player (GameEnhanced, BattleGame,
\* MobileOnlineBattleGame), after every lock level = floor(total lines
\* cleared / LINES_PER_LEVEL) + 1 and the level never decreases; in
\* BattleGame this holds although a lock raises the level by at most one.
C17_Level ==
  (pc = "score" /\ p_ret.locked) =>
    /\ p_ret.card.level = C16_LinesOf(p_ret.card) \div LINES_PER_LEVEL + 1
    /\ p_ret.card.level >= p_ret.before.level
    /\ "player_id" \in DOMAIN p_ret.card
         => p_ret.card.level <= p_ret.before.level + 1

C17_Witness ==
  /\ pc = "score" /\ p_ret.locked
  /\ "player_id" \in DOMAIN p_ret.card
  /\ p_ret.before.lines = 19
  /\ p_ret.before.level = 2
  /\ p_ret.k = 4
  /\ p_ret.card.lines = 23
  /\ p_ret.card.level = 3

C18_Occupied(row) == Cardinality({ x \in 1..Len(row) : row[x] # None })

\* C18: _add_garbage_lines(player, n) with 1 <= n <= height moves every row
\* r >= n of the board to row r - n, discards the original top n rows, and
\* fills the bottom n rows with garbage rows that each have exactly
\* width - 1 occupied cells and exactly one empty cell; the board keeps its
\* height and width.
C18_AddGarbage ==
  (pc = "returned"
     /\ p_ret.op \in {"_add_garbage_lines", "mobile_add_garbage_lines"}) =>
    /\ p_board.height = p_ret.before.height
    /\ p_board.width = p_ret.before.width
    /\ Len(p_board.grid) = p_board.height
    /\ \A y \in 1..p_board.height : Len(p_board.grid[y]) = p_board.width
    /\ \A y \in (p_ret.count + 1)..p_board.height :
         p_board.grid[y - p_ret.count] = p_ret.before.grid[y]
    /\ \A y \in (p_board.height - p_ret.count + 1)..p_board.height :
         /\ C18_Occupied(p_board.grid[y]) = p_board.width - 1
         /\ Cardinality({ x \in 1..p_board.width :
                            p_board.grid[y][x] = None }) = 1

C18_Witness ==
  /\ pc = "returned"
  /\ p_ret.op = "_add_garbage_lines"
  /\ p_ret.count = 2
  /\ p_ret.before.grid[1][1] = "CYAN"
  /\ p_ret.before.grid[2][ProbeWidth] = "RED"
  /\ p_ret.before.grid[3] # p_ret.before.grid[1]
  /\ p_board.grid[1] = p_ret.before.grid[3]
  /\ p_board.grid[2][1] = None
  /\ p_board.grid[3][ProbeWidth] = None

\* C19: in BattleGame a player whose newly spawned piece collides at the
\* spawn position becomes dead (and only such a player does); a dead player
\* stays dead until restart, and its board, current piece, score and lines
\* are not changed by any input event or update tick.
C19_DeadIsFrozen ==
  [][\A i \in 1..2 :
       /\ obs'[i].locked =>
            (players'[i].is_dead <=>
               ~is_valid_position(players'[i].board,
                                  players'[i].current_block))
       /\ (~players[i].is_dead /\ players'[i].is_dead) => obs'[i].locked
       /\ (players[i].is_dead /\ ~(state = GAME_OVER /\ state' = PLAYING)) =>
            /\ players'[i].is_dead
            /\ players'[i].board = players[i].board
            /\ players'[i].current_block = players[i].current_block
            /\ players'[i].score = players[i].score
            /\ players'[i].lines = players[i].lines]_vars

C19_Witness ==
  /\ players[1].is_dead
  /\ ~players[2].is_dead
  /\ state = PLAYING
  /\ obs[2].locked
  /\ ~is_valid_position(players[1].board, players[1].current_block)

\* C20: in OnlineBattleGame after MATCH_START the k-th piece type drawn for
\* the local player is my_block_sequence[k] for every k below the sequence
\* length: the types enter the next slot and then the current slot in the
\* assigned order, one per spawn with none skipped or repeated, under any
\* interleaving of locks, hard drops and holds, and the local player's
\* draws never consume opponent_block_sequence.  (The draws so far are the
\* two of the setup, one per lock and one for the first hold.)
C20_Drawn ==
  2 + locks[local_role]
    + (IF players[local_role].hold_block # None THEN 1 ELSE 0)

C20_SequenceOrder ==
  [][/\ block_index.my = (IF C20_Drawn < Len(my_block_sequence)
                          THEN C20_Drawn ELSE Len(my_block_sequence))
     /\ (locks[local_role] = 0 /\ players[local_role].hold_block = None) =>
          players[local_role].current_block.type = my_block_sequence[1]
     /\ block_index'.opp = block_index.opp
     /\ block_index'.my \in {block_index.my, block_index.my + 1}
     /\ (block_index.my >= 1 /\ block_index.my < Len(my_block_sequence)) =>
          players[local_role].next_block = my_block_sequence[block_index.my]
     /\ block_index'.my = block_index.my + 1 =>
          /\ players'[local_role].next_block
               = my_block_sequence[block_index'.my]
          /\ players'[local_role].current_block.type
               = players[local_role].next_block
     /\ (block_index.my < Len(my_block_sequence)
           /\ \/ obs'[local_role].locked
              \/ /\ players[local_role].hold_block = None
                 /\ players'[local_role].hold_block # None) =>
          block_index'.my = block_index.my + 1]_vars

C20_Witness ==
  /\ Len(my_block_sequence) = LongSeqLen
  /\ block_index.my = LongSeqLen
  /\ block_index.opp = 2
  /\ my_block_sequence[3] # my_block_sequence[4]
  /\ players[local_role].hold_block = my_block_sequence[1]
  /\ players[local_role].current_block.type = my_block_sequence[3]
  /\ players[local_role].next_block = my_block_sequence[4]
  /\ locks[local_role] = 1
  /\ ~players[local_role].is_dead

C21_Sent(msgs, type) ==
  Cardinality({ i \in 1..Len(msgs) : msgs[i].type = type })

\* C21: in OnlineBattleGame every lock of the local player's piece that
\* clears two or more lines, by the lock delay or by a hard drop, results in
\* exactly one GARBAGE message being sent to the opponent.
C21_GarbageSentOnClear ==
  [][(obs'[local_role].locked /\ obs'[local_role].lines_cleared >= 2) =>
       C21_Sent(sent', "GARBAGE") = 1]_vars

\* The same for the locks reached by the lock delay alone.
C21_LockDelayClear ==
  [][(obs'[local_role].locked /\ obs'[local_role].lines_cleared >= 2
        /\ obs'[local_role].via = "lock_delay") =>
       C21_Sent(sent', "GARBAGE") = 1]_vars

\* C22: the lines value of the GARBAGE message sent for a k-line clear
\* equals GARBAGE_LINES[k], the table of the local battle (1 for a double,
\* 2 for a triple, 4 for a 4-line clear).
C22_GarbageTable ==
  [][\A i \in 1..Len(sent') :
       sent'[i].type = "GARBAGE" =>
         /\ obs'[local_role].locked
         /\ sent'[i].lines = GARBAGE_LINES(obs'[local_role].lines_cleared)]_vars

\* The same for the clears of fewer than four lines.
C22_BelowFour ==
  [][\A i \in 1..Len(sent') :
       (sent'[i].type = "GARBAGE" /\ obs'[local_role].lines_cleared < 4) =>
         /\ obs'[local_role].locked
         /\ sent'[i].lines = GARBAGE_LINES(obs'[local_role].lines_cleared)]_vars

\* C23: when the local player of OnlineBattleGame has topped out, by a
\* lock-delay lock, a hard drop or a hold, the update of that frame sends
\* exactly one GAME_OVER message and the match state becomes GAME_OVER.
C23_TopOutReported ==
  [][(pc = "update" /\ pc' = "sync" /\ state = PLAYING
        /\ time_remaining' > 0 /\ players'[local_role].is_dead) =>
       /\ state' = GAME_OVER
       /\ C21_Sent(sent', "GAME_OVER") = 1]_vars

\* The same for the top-outs that happen inside the update, at the spawn
\* after a lock-delay lock.
C23_LockDelayTopOut ==
  [][(pc = "update" /\ pc' = "sync" /\ state = PLAYING
        /\ time_remaining' > 0 /\ ~players[local_role].is_dead
        /\ players'[local_role].is_dead) =>
       /\ state' = GAME_OVER
       /\ C21_Sent(sent', "GAME_OVER") = 1]_vars

\* A lock-delay top-out has been reported.
C23_LockDelayReached ==
  /\ state = GAME_OVER
  /\ players[local_role].is_dead
  /\ C21_Sent(sent, "GAME_OVER") = 1

\* C24: using a power-up from a non-empty inventory removes the oldest
\* power-up and hands exactly one DEBUFF message with that effect's name and
\* duration to the NetworkManager, and the tick goes on without a fault.
C24_PowerupSent ==
  [][(handle_event_online_shift
        /\ Len(players[local_role].powerups) > 0) =>
       /\ players'[local_role].powerups = Tail(players[local_role].powerups)
       /\ C21_Sent(sent', "DEBUFF") = 1
       /\ \A i \in 1..Len(sent') :
            sent'[i].type = "DEBUFF" =>
              /\ sent'[i].debuff = Head(players[local_role].powerups)
              /\ sent'[i].duration =
                   BATTLE_POWERUP_DURATION(Head(players[local_role].powerups))
       /\ pc' # "fault"]_vars

\* The removal alone: the oldest power-up is the one taken.
C24_OldestRemoved ==
  [][(handle_event_online_shift
        /\ Len(players[local_role].powerups) > 0) =>
       players'[local_role].powerups = Tail(players[local_role].powerups)]_vars

\* C25: after a TIME_SYNC message has been processed, the countdown the
\* next update uses equals the received value, 0 included: a TIME_SYNC with
\* remaining 0 ends the match by timeout on the next update.
C25_TimeSyncOverrides ==
  [][(pc = "update" /\ pc' = "sync" /\ state = PLAYING
        /\ server_time_remaining # BATTLE_DURATION) =>
       /\ time_remaining' = server_time_remaining
       /\ server_time_remaining = 0 =>
            (state' = GAME_OVER /\ game_result'.reason = "TIMEOUT")]_vars

\* C26: while no TIME_SYNC message has arrived, time_remaining follows the
\* local countdown, BATTLE_DURATION minus the elapsed time and not below 0,
\* and the update that finds it at 0 ends the match by timeout.
C26_LocalCountdown ==
  [][(pc = "update" /\ pc' = "sync" /\ state = PLAYING
        /\ server_time_remaining = BATTLE_DURATION) =>
       /\ time_remaining' =
            (IF BATTLE_DURATION - (now' - game_start_time) > 0
             THEN BATTLE_DURATION - (now' - game_start_time) ELSE 0)
       /\ time_remaining' = 0 =>
            (state' = GAME_OVER /\ game_result'.reason = "TIMEOUT")]_vars

\* The reasons of a terminal outcome that name a disconnect.
C27_DisconnectReasons ==
  {"DISCONNECT", "DISCONNECTED", "OPPONENT_DISCONNECTED", "CONNECTION_LOST"}

\* C27: when the network connection is lost during a match, the match
\* eventually goes to GAME_OVER with a disconnect outcome.
C27_DisconnectEndsMatch ==
  (~connected) ~>
     (state = GAME_OVER /\ game_result.reason \in C27_DisconnectReasons)

\* The loss of the connection writes nothing but connected, and no later
\* step of the loop reads it: with the connection lost the match ends, if at
\* all, as it would have ended with it.
C27_LossIsNotObserved ==
  [][(~connected' /\ state' = GAME_OVER) =>
       game_result'.reason = "TIMEOUT"]_vars

\* C28: applying an OPPONENT_STATE serialised by the peer's send_state makes
\* the remote player's grid, score and lines equal to the sender's at send
\* time: empty cells are empty, every occupied cell has its colour.
C28_StateTransfer ==
  pc \in {"applied", "returned"} =>
    /\ players[Other(local_role)].board.grid = p_board.grid
    /\ players[Other(local_role)].score = p_ret.score
    /\ players[Other(local_role)].lines = p_ret.lines

\* A second state has been applied over a first one: the remote grid has
\* the sender's empty bottom row and its gray cells above, with its score.
C28_Witness ==
  /\ pc = "returned"
  /\ p_board.grid[GridHeight] = EmptyRow(GridWidth)
  /\ p_board.grid[GridHeight - 1][GridWidth] = COLOR_GRAY
  /\ p_ret.score = 300
  /\ players[Other(local_role)].board.grid = p_board.grid
  /\ players[Other(local_role)].score = 300

\* C29: applying an OPPONENT_STATE serialised by the peer's send_state for a
\* sender with a current piece makes the remote player's display piece
\* occupy the cells of the sender's piece.
C29_PieceTransfer ==
  (pc \in {"applied", "returned"} /\ p_block # NoBlock) =>
    /\ players[Other(local_role)].current_block # NoBlock
    /\ CellsOf(players[Other(local_role)].current_block) = CellsOf(p_block)

\* What the remote piece is after any number of relayed states: the piece
\* the setup spawned.
C29_PieceStays ==
  players[Other(local_role)].current_block =
    _setup_online_game(local_role).players[Other(local_role)].current_block

\* A step of _process_network_events whose events include an
\* OPPONENT_STATE.
C30_OpponentStateApplied ==
  \E msgs \in BatchDraws :
    /\ \E i \in 1..Len(msgs) : msgs[i].type = "OPPONENT_STATE"
    /\ _process_network_events(msgs)

\* C30: the remote player's board grid and current piece are changed only by
\* applying an inbound OPPONENT_STATE: no update, gravity step, lock,
\* garbage injection or key of the local player changes them.
C30_RemoteOnlyByState ==
  [][(\/ players'[Other(local_role)].board
           # players[Other(local_role)].board
      \/ players'[Other(local_role)].current_block
           # players[Other(local_role)].current_block) =>
       C30_OpponentStateApplied]_vars

\* The remote grid is the one a relayed state brought, the remote piece is
\* where the setup put it, and the local player has locked a piece and
\* played on for half a second.
C30_Witness ==
  /\ players[Other(local_role)].board.grid[GridHeight][1] = COLOR_GRAY
  /\ players[Other(local_role)].current_block =
       _setup_online_game(local_role).players[Other(local_role)].current_block
  /\ locks[local_role] > 0
  /\ now >= OnlineHorizon

\* C31: PowerUpManager.inventory and BattlePlayer.powerups are FIFO queues of
\* capacity 2.  The length never exceeds 2; add_powerup on a full inventory
\* returns False and leaves it unchanged, otherwise it returns True and
\* appends; use_powerup on an empty inventory returns None and changes
\* nothing, otherwise it returns the oldest power-up and removes it.
C31_Queue(holder) ==
  IF "inventory" \in DOMAIN holder
  THEN [i \in 1..Len(holder.inventory) |-> holder.inventory[i].type]
  ELSE holder.powerups

C31_Returned ==
  IF "inventory" \in DOMAIN p_ret.before THEN p_ret.ret.type ELSE p_ret.ret

C31_BoundedFifo ==
  pc = "inventory" =>
    /\ Len(C31_Queue(p_ret.holder)) <= 2
    /\ p_ret.op = "add_powerup" =>
         IF Len(C31_Queue(p_ret.before)) >= 2
         THEN p_ret.ret = FALSE /\ p_ret.holder = p_ret.before
         ELSE /\ p_ret.ret = TRUE
              /\ C31_Queue(p_ret.holder)
                   = Append(C31_Queue(p_ret.before), p_ret.arg)
    /\ p_ret.op = "use_powerup" =>
         IF Len(C31_Queue(p_ret.before)) = 0
         THEN C31_Returned = None /\ p_ret.holder = p_ret.before
         ELSE /\ C31_Returned = Head(C31_Queue(p_ret.before))
              /\ C31_Queue(p_ret.holder) = Tail(C31_Queue(p_ret.before))

\* A manager whose full inventory of two different power-ups has refused a
\* third.
C31_Witness ==
  /\ pc = "inventory"
  /\ "inventory" \in DOMAIN p_ret.holder
  /\ p_ret.op = "add_powerup"
  /\ p_ret.ret = FALSE
  /\ Len(p_ret.holder.inventory) = 2
  /\ p_ret.holder.inventory[1].type # p_ret.holder.inventory[2].type

\* C32: PowerUpManager.active_effects holds at most one record per timed
\* effect type.
C32_OneRecordPerType ==
  pc = "inventory" /\ "inventory" \in DOMAIN p_ret.holder =>
    \A i, j \in 1..Len(p_ret.holder.active_effects) :
      p_ret.holder.active_effects[i].type
        = p_ret.holder.active_effects[j].type => i = j

\* C33: ghost_mode_blocks_remaining is 3 after a GHOST_MODE use, one less
\* after each lock_block while positive, never negative, unchanged by
\* update, add_powerup and the use of any other power-up; and
\* is_effect_active(GHOST_MODE) is true exactly when it is positive.
C33_GhostCounter ==
  pc = "inventory" /\ "inventory" \in DOMAIN p_ret.holder =>
    LET n == p_ret.holder.ghost_mode_blocks_remaining
        n0 == p_ret.before.ghost_mode_blocks_remaining
    IN /\ n \in 0..3
       /\ is_effect_active(p_ret.holder, "ghost_mode") <=> n > 0
       /\ p_ret.op = "use_powerup" =>
            n = IF p_ret.ret.type = "ghost_mode"
                THEN 3 ELSE n0
       /\ p_ret.op = "lock_block" => n = IF n0 > 0 THEN n0 - 1 ELSE 0
       /\ p_ret.op \in {"update", "add_powerup"} => n = n0

\* The third lock after a GHOST_MODE use: the counter goes from 1 to 0.
C33_Witness ==
  /\ pc = "inventory"
  /\ "inventory" \in DOMAIN p_ret.holder
  /\ p_ret.op = "lock_block"
  /\ p_ret.before.ghost_mode_blocks_remaining = 1
  /\ p_ret.holder.ghost_mode_blocks_remaining = 0

\* C34: right after _process_network_events has processed one message (the
\* loop stands at "events", so the tick has not failed): an OPPONENT_STATE
\* that lacks grid, score, lines or piece leaves the remote player's grid,
\* score, lines or display piece as it was and never touches the local
\* player; a message of an unknown type, or without a type, and a DEBUFF
\* whose name is no BattlePowerUpType, change no game state.
C34_Message == p_ret.events[1]

C34_DefectiveIgnored ==
  (pc = "events" /\ p_ret.op = "get_event") =>
    LET remote == players[Other(local_role)]
        before == p_ret.before.players[Other(local_role)]
    IN /\ Get(C34_Message, "type", None) = "OPPONENT_STATE" =>
            /\ "grid" \notin DOMAIN C34_Message => remote.board = before.board
            /\ "score" \notin DOMAIN C34_Message => remote.score = before.score
            /\ "lines" \notin DOMAIN C34_Message => remote.lines = before.lines
            /\ "piece" \notin DOMAIN C34_Message =>
                 remote.current_block = before.current_block
            /\ players[local_role] = p_ret.before.players[local_role]
            /\ [InboundState EXCEPT !.players = p_ret.before.players]
                 = p_ret.before
       /\ (\/ Get(C34_Message, "type", None)
                \notin {"OPPONENT_STATE", "GARBAGE", "TIME_SYNC",
                        "OPPONENT_DISCONNECTED", "GAME_END", "DEBUFF"}
           \/ /\ Get(C34_Message, "type", None) = "DEBUFF"
              /\ Get(C34_Message, "debuff", "") \notin BattlePowerUpType)
            => InboundState = p_ret.before

\* A DEBUFF naming "banana" has been processed in the second frame, when
\* the players are no longer as MATCH_START left them.
C34_Witness ==
  /\ pc = "events"
  /\ p_ret.op = "get_event"
  /\ Get(C34_Message, "type", None) = "DEBUFF"
  /\ Get(C34_Message, "debuff", "") = "banana"
  /\ now > 0

\* An OPPONENT_STATE carrying only the score has been applied: the score is
\* the payload's, the grid and the lines are the previous ones.
C34_ScoreOnly ==
  /\ pc = "events"
  /\ p_ret.op = "get_event"
  /\ DOMAIN C34_Message = {"type", "score"}
  /\ players[Other(local_role)].score = 40
  /\ p_ret.before.players[Other(local_role)].score = 0

\* C35: in every state of the server, under every interleaving of the
\* handlers: the waiting slot is empty or holds one connection whose handler
\* took it and has not been paired; no connection is the opponent_ws of two
\* joiners, none is paired with itself, and a joiner is nobody's opponent;
\* every MATCH_START with role 1 was received by the connection some joiner
\* took from the slot and carries that joiner's game_id; every MATCH_START
\* with role 2 was received by a joiner, carries its game_id, and its
\* opponent_ws has received role 1 with the same game_id; and no two
\* joiners share a game_id.
C35_Joiners == { c \in Connections : p_ret.opponent_ws[c] # 0 }

C35_Got(c, role) ==
  { p_ret.received[c][i].game_id :
      i \in { k \in 1..Len(p_ret.received[c]) :
                /\ p_ret.received[c][k].type = "MATCH_START"
                /\ p_ret.received[c][k].role = role } }

C37_RemotePendingZero ==
  (local_role # 0 /\ obs[local_role].locked) =>
    players[Other(local_role)].pending_garbage = 0

\* The same for the lock-delay locks that clear fewer than four lines.
C37_LockDelayBelowFour ==
  (local_role # 0 /\ obs[local_role].locked
     /\ obs[local_role].via = "lock_delay"
     /\ obs[local_role].lines_cleared < 4
     /\ obs[local_role].opp_pending_before = 0) =>
    players[Other(local_role)].pending_garbage = 0

\* A lock-delay lock that cleared two lines.
C37_LockDelayDouble ==
  /\ local_role # 0
  /\ obs[local_role].locked
  /\ obs[local_role].via = "lock_delay"
  /\ obs[local_role].lines_cleared = 2

\* C38: in every PLAYING state of the local BattleGame each player that is
\* not dead has its current piece in a valid position.
C38_PieceValid ==
  (local_role = 0 /\ state = PLAYING) =>
    \A i \in 1..2 :
      (~players[i].is_dead /\ players[i].current_block # NoBlock) =>
        is_valid_position(players[i].board, players[i].current_block)

\* C39: during a match of the local BattleGame no step lowers a player's
\* score.
C39_ScoreNeverDecreases ==
  [][(local_role = 0 /\ state = PLAYING) =>
       \A i \in 1..2 : players'[i].score >= players[i].score]_vars

\* The same for the steps that start with both current pieces in a valid
\* position; and a hard drop then adds SCORE_HARD_DROP for each row
\* travelled, before the lines of its lock are scored.
C39_FromValidPosition ==
  [][(local_role = 0 /\ state = PLAYING
        /\ \A i \in 1..2 :
             players[i].current_block # NoBlock =>
               is_valid_position(players[i].board, players[i].current_block))
       => \A i \in 1..2 :
            /\ players'[i].score >= players[i].score
            /\ (obs'[i].locked /\ obs'[i].via = "hard_drop"
                  /\ obs'[i].lines_cleared = 0) =>
                 \E d \in 0..GridHeight :
                   /\ players'[i].score
                        = players[i].score + d * SCORE_HARD_DROP
                   /\ is_valid_position(
                        players[i].board,
                        [players[i].current_block EXCEPT !.y = @ + d])
                   /\ ~is_valid_position(
                         players[i].board,
                         [players[i].current_block EXCEPT !.y = @ + d + 1])]_vars

\* C36: a piece GameEnhanced.update locks by the lock delay has been unable
\* to fall for at least LOCK_DELAY.
C36_LockAfterRest ==
  (pc = "events" /\ p_ret.op = "GameEnhanced" /\ p_ret.locked
     /\ p_ret.via = "lock_delay") =>
    p_ret.rested >= LOCK_DELAY

\* C40: in GAME_OVER and GAME_OVER_INPUT the high score is at least the
\* score.
C40_HighScore ==
  (p_ret.op = "GameEnhanced"
     /\ p_ret.g.state \in {GAME_OVER, GAME_OVER_INPUT}) =>
    p_ret.g.high_score >= p_ret.g.score

\* The same for the games a lock-delay lock ends.
C40_LockDelayEnd ==
  (p_ret.op = "GameEnhanced" /\ p_ret.locked /\ p_ret.via = "lock_delay"
     /\ p_ret.g.state \in {GAME_OVER, GAME_OVER_INPUT}) =>
    p_ret.g.high_score >= p_ret.g.score

\* A lock-delay lock has ended a game with a positive score.
C40_LockDelayReached ==
  /\ p_ret.op = "GameEnhanced"
  /\ p_ret.locked
  /\ p_ret.via = "lock_delay"
  /\ p_ret.g.state \in {GAME_OVER, GAME_OVER_INPUT}
  /\ p_ret.g.score > 0
====
